---------------------------- MODULE Spec2Model ----------------------------
(***************************************************************************)
(* A model of the incremental revision synchronization of wiki-scripts,    *)
(* ws/db/grabbers/revision.py (class GrabberRevisions).                    *)
(*                                                                         *)
(* gen_insert / gen_update are generators of (statement, parameters)       *)
(* pairs.  The model keeps the five relations the statements act on, the   *)
(* local variables of gen_update, the list of operations yielded so far    *)
(* and the operations yielded but not yet executed.  The consumer of the   *)
(* generator (Grabber.insert / Grabber.update, which is not part of the    *)
(* sources at hand) is modelled after sections 4.5 and 5 of the            *)
(* specification: one transaction per run, the checkpoint written after    *)
(* the commit.                                                             *)
(*                                                                         *)
(* Foreign keys of the schema (which is not part of the sources at hand)   *)
(* are not modelled: a statement the model executes on a row whose parent  *)
(* is missing may abort the run in the real database.                      *)
(***************************************************************************)
EXTENDS Integers, Sequences, FiniteSets, TLC

(***************************************************************************)
(* Bounds of the model.                                                    *)
(***************************************************************************)
MaxRev == 2
MaxLog == 2
MaxTagLog == 3
MaxBitmaskLog == 3
MaxRuns == 2

\* SQL NULL / Python None in an integer column (ids start at 1).
NULL == 0

RevIds == 1..MaxRev
PageIds == {1, 2}
Tags == {"t1", "t2"}
\* Full page titles as the log and the API give them.
Titles == {"A", "Talk:A"}
\* Timestamps: 1 is before the first checkpoint, 2 is the first checkpoint,
\* 3 is the time the modelled run starts.
Timestamps == {1, 2, 3}

\* Title(api, t).namespacenumber
TitleNs(t) == IF t = "Talk:A" THEN 1 ELSE 0
\* Title(api, t).dbtitle(ns): the title without its namespace prefix
TitleDb(t) == IF t = "Talk:A" THEN "A" ELSE t

\* value_or_none(x): a falsy value (0, missing) is None
value_or_none(x) == IF x = 0 THEN NULL ELSE x

(***************************************************************************)
(* Small helpers on finite sets and sequences.                             *)
(***************************************************************************)
\* The elements of a finite set of integers in increasing order.
RECURSIVE SortedSeq(_)
SortedSeq(S) ==
    IF S = {} THEN <<>>
    ELSE LET m == CHOOSE x \in S : \A y \in S : x <= y
         IN  <<m>> \o SortedSeq(S \ {m})

\* The elements of a finite set of strings, ordered by a fixed ranking.
StrRank(s) ==
    CASE s = "A" -> 1 [] s = "Talk:A" -> 2 [] s = "t1" -> 3 [] s = "t2" -> 4
      [] OTHER -> 5

RECURSIVE StrSeq(_)
StrSeq(S) ==
    IF S = {} THEN <<>>
    ELSE LET m == CHOOSE x \in S : \A y \in S : StrRank(x) <= StrRank(y)
         IN  <<m>> \o StrSeq(S \ {m})

RECURSIVE Flatten(_)
Flatten(ss) == IF ss = <<>> THEN <<>> ELSE Head(ss) \o Flatten(Tail(ss))

Range(s) == {s[i] : i \in 1..Len(s)}

MaxOf(S) == IF S = {} THEN NULL ELSE CHOOSE x \in S : \A y \in S : y <= x

(***************************************************************************)
(* The replica: five relations, and the page relation the merge statement  *)
(* reads.                                                                  *)
(*   revision : rev_id -> row      archive : ar_rev_id -> row              *)
(*   text     : old_id -> row                                              *)
(*   tagged_revision, tagged_archived_revision : sets of <<rev_id, tag>>   *)
(*   page     : page_id -> [ns, title]                                     *)
(***************************************************************************)
EmptyFcn == [x \in {} |-> NULL]

EmptyDb ==
    [revision |-> EmptyFcn, archive |-> EmptyFcn, text |-> EmptyFcn,
     tagged_revision |-> {}, tagged_archived_revision |-> {},
     page |-> EmptyFcn]

\* A statement's outcome: the new relations, or an error raised by the
\* database (ok = FALSE, the relations as they were).
Ok(d) == [ok |-> TRUE, db |-> d]
Err(d) == [ok |-> FALSE, db |-> d]

\* ("insert", "text"): on conflict overwrite old_text and old_flags
InsertText(d, e) ==
    Ok([d EXCEPT !.text =
          [i \in DOMAIN d.text \cup {e.old_id} |->
              IF i = e.old_id
              THEN [old_text |-> e.old_text, old_flags |-> e.old_flags]
              ELSE d.text[i]]])

\* A variant whose conflict clause sets every column from the entry.
InsertRevision_Overwrite(d, e) ==
    Ok([d EXCEPT !.revision =
          [i \in DOMAIN d.revision \cup {e.rev_id} |->
              IF i # e.rev_id THEN d.revision[i]
              ELSE [rev_page |-> e.rev_page,
                    rev_text_id |-> e.rev_text_id,
                    rev_timestamp |-> e.rev_timestamp,
                    rev_deleted |-> 0,
                    rev_parent_id |-> e.rev_parent_id]]])

\* ("insert", "revision"): on conflict set rev_text_id to the proposed value
\* (EXCLUDED.rev_text_id, which is NULL when the entry has no rev_text_id)
InsertRevision(d, e) ==
    Ok([d EXCEPT !.revision =
          [i \in DOMAIN d.revision \cup {e.rev_id} |->
              IF i # e.rev_id THEN d.revision[i]
              ELSE IF i \in DOMAIN d.revision
                   THEN [d.revision[i] EXCEPT !.rev_text_id = e.rev_text_id]
                   ELSE [rev_page |-> e.rev_page,
                         rev_text_id |-> e.rev_text_id,
                         rev_timestamp |-> e.rev_timestamp,
                         rev_deleted |-> 0,
                         rev_parent_id |-> e.rev_parent_id]]])

\* ("insert", "archive"): on conflict (ar_rev_id) set ar_text_id
InsertArchive(d, e) ==
    Ok([d EXCEPT !.archive =
          [i \in DOMAIN d.archive \cup {e.ar_rev_id} |->
              IF i # e.ar_rev_id THEN d.archive[i]
              ELSE IF i \in DOMAIN d.archive
                   THEN [d.archive[i] EXCEPT !.ar_text_id = e.ar_text_id]
                   ELSE [ar_namespace |-> e.ar_namespace,
                         ar_title |-> e.ar_title,
                         ar_page_id |-> e.ar_page_id,
                         ar_text_id |-> e.ar_text_id,
                         ar_timestamp |-> e.ar_timestamp,
                         ar_deleted |-> 0,
                         ar_parent_id |-> NULL]]])

\* ("insert", "tagged_revision"): on conflict do nothing
InsertTaggedRevision(d, e) ==
    Ok([d EXCEPT !.tagged_revision = @ \cup {<<e.b_rev_id, e.b_tag_name>>}])

\* ("insert", "tagged_archived_revision"): on conflict do nothing
InsertTaggedArchivedRevision(d, e) ==
    Ok([d EXCEPT !.tagged_archived_revision =
          @ \cup {<<e.b_rev_id, e.b_tag_name>>}])

\* ("delete", "tagged_revision")
DeleteTaggedRevision(d, e) ==
    Ok([d EXCEPT !.tagged_revision = @ \ {<<e.b_rev_id, e.b_tag_name>>}])

\* ("delete", "tagged_archived_revision")
DeleteTaggedArchivedRevision(d, e) ==
    Ok([d EXCEPT !.tagged_archived_revision =
          @ \ {<<e.b_rev_id, e.b_tag_name>>}])

\* ("update", "archive.ar_page_id"): every archive row of the namespace and
\* title gets the page id (the WHERE clause has no condition on ar_page_id)
UpdateArPageId(d, e) ==
    Ok([d EXCEPT !.archive =
          [i \in DOMAIN d.archive |->
              IF /\ d.archive[i].ar_namespace = e.b_namespace
                 /\ d.archive[i].ar_title = e.b_title
              THEN [d.archive[i] EXCEPT !.ar_page_id = e.ar_page_id]
              ELSE d.archive[i]]])

\* The scalar subquery of ("merge", "revision"): the id of the page with the
\* namespace and title, NULL when there is none.
DestPageId(d, ns, title) ==
    LET hit == {p \in DOMAIN d.page :
                   d.page[p].ns = ns /\ d.page[p].title = title}
    IN  IF hit = {} THEN NULL ELSE CHOOSE p \in hit : TRUE

\* A variant without the condition on the timestamp.
MergeRevision_WholePage(d, e) ==
    Ok([d EXCEPT !.revision =
          [i \in DOMAIN d.revision |->
              IF d.revision[i].rev_page = e.b_src_page_id
              THEN [d.revision[i] EXCEPT
                      !.rev_page = DestPageId(d, e.b_dest_ns, e.b_dest_title)]
              ELSE d.revision[i]]])

\* ("merge", "revision")
MergeRevision(d, e) ==
    Ok([d EXCEPT !.revision =
          [i \in DOMAIN d.revision |->
              IF /\ d.revision[i].rev_page = e.b_src_page_id
                 /\ d.revision[i].rev_timestamp <= e.b_mergepoint
              THEN [d.revision[i] EXCEPT
                      !.rev_page = DestPageId(d, e.b_dest_ns, e.b_dest_title)]
              ELSE d.revision[i]]])

\* ("update", "rev_deleted")
UpdateRevDeleted(d, e) ==
    Ok([d EXCEPT !.revision =
          [i \in DOMAIN d.revision |->
              IF i = e.b_revid
              THEN [d.revision[i] EXCEPT !.rev_deleted = e.rev_deleted]
              ELSE d.revision[i]]])

\* ("update", "ar_deleted")
UpdateArDeleted(d, e) ==
    Ok([d EXCEPT !.archive =
          [i \in DOMAIN d.archive |->
              IF i = e.b_revid
              THEN [d.archive[i] EXCEPT !.ar_deleted = e.ar_deleted]
              ELSE d.archive[i]]])

\* A variant of the CTE without the condition on the page id.
DeletedRevision_Any(d, e) == DOMAIN d.archive

\* The rows the CTE deleted_revision deletes and returns.
DeletedRevision(d, e) ==
    {i \in DOMAIN d.archive : d.archive[i].ar_page_id = e.b_page_id}

\* A variant that keeps in revision only the rows it moves.
MoveRevision_Replace(d, e) ==
    LET moved == DeletedRevision(d, e)
    IN  Ok([d EXCEPT
              !.archive = [i \in DOMAIN d.archive \ moved |-> d.archive[i]],
              !.revision =
                 [i \in moved |->
                     [rev_page |-> d.archive[i].ar_page_id,
                      rev_text_id |-> d.archive[i].ar_text_id,
                      rev_timestamp |-> d.archive[i].ar_timestamp,
                      rev_deleted |-> d.archive[i].ar_deleted,
                      rev_parent_id |-> d.archive[i].ar_parent_id]]])

\* A variant whose INSERT takes the rows of archive without deleting them.
MoveRevision_NoDelete(d, e) ==
    LET moved == DeletedRevision(d, e)
    IN  IF moved \cap DOMAIN d.revision # {} THEN Err(d)
        ELSE Ok([d EXCEPT
                   !.revision =
                      [i \in DOMAIN d.revision \cup moved |->
                          IF i \in moved
                          THEN [rev_page |-> d.archive[i].ar_page_id,
                                rev_text_id |-> d.archive[i].ar_text_id,
                                rev_timestamp |-> d.archive[i].ar_timestamp,
                                rev_deleted |-> d.archive[i].ar_deleted,
                                rev_parent_id |-> d.archive[i].ar_parent_id]
                          ELSE d.revision[i]]])

\* A variant that inserts the returned rows and deletes none.
MoveRevision_Copy(d, e) ==
    LET moved == DeletedRevision(d, e)
    IN  Ok([d EXCEPT
              !.revision =
                 [i \in DOMAIN d.revision \cup moved |->
                     IF i \in moved
                     THEN [rev_page |-> d.archive[i].ar_page_id,
                           rev_text_id |-> d.archive[i].ar_text_id,
                           rev_timestamp |-> d.archive[i].ar_timestamp,
                           rev_deleted |-> d.archive[i].ar_deleted,
                           rev_parent_id |-> d.archive[i].ar_parent_id]
                     ELSE d.revision[i]]])

\* ("move", "revision"): one statement; a plain INSERT, so a returned row
\* whose rev_id is already in revision violates the primary key and the
\* statement fails as a whole.
MoveRevision(d, e) ==
    LET moved == DeletedRevision(d, e)
    IN  IF moved \cap DOMAIN d.revision # {} THEN Err(d)
        ELSE Ok([d EXCEPT
                   !.archive = [i \in DOMAIN d.archive \ moved |-> d.archive[i]],
                   !.revision =
                      [i \in DOMAIN d.revision \cup moved |->
                          IF i \in moved
                          THEN [rev_page |-> d.archive[i].ar_page_id,
                                rev_text_id |-> d.archive[i].ar_text_id,
                                rev_timestamp |-> d.archive[i].ar_timestamp,
                                rev_deleted |-> d.archive[i].ar_deleted,
                                rev_parent_id |-> d.archive[i].ar_parent_id]
                          ELSE d.revision[i]]])

\* The rows the CTE deleted_tagged_archived_revision deletes and returns.
DeletedTaggedArchivedRevision(d, e) ==
    {tl \in d.tagged_archived_revision : tl[1] \in DeletedRevision(d, e)}

\* ("move", "tagged_archived_revision"): one statement; a plain INSERT, so a
\* returned pair that is already in tagged_revision fails the statement.
MoveTaggedArchivedRevision(d, e) ==
    LET moved == DeletedTaggedArchivedRevision(d, e)
    IN  IF moved \cap d.tagged_revision # {} THEN Err(d)
        ELSE Ok([d EXCEPT
                   !.tagged_archived_revision = @ \ moved,
                   !.tagged_revision = @ \cup moved])

\* conn.execute(stmt, entry)
Execute(d, op) ==
    CASE op.stmt = "insert text" -> InsertText(d, op.entry)
      [] op.stmt = "insert revision" -> InsertRevision(d, op.entry)
      [] op.stmt = "insert archive" -> InsertArchive(d, op.entry)
      [] op.stmt = "insert tagged_revision" ->
            InsertTaggedRevision(d, op.entry)
      [] op.stmt = "insert tagged_archived_revision" ->
            InsertTaggedArchivedRevision(d, op.entry)
      [] op.stmt = "delete tagged_revision" ->
            DeleteTaggedRevision(d, op.entry)
      [] op.stmt = "delete tagged_archived_revision" ->
            DeleteTaggedArchivedRevision(d, op.entry)
      [] op.stmt = "update archive.ar_page_id" -> UpdateArPageId(d, op.entry)
      [] op.stmt = "merge revision" -> MergeRevision(d, op.entry)
      [] op.stmt = "update rev_deleted" -> UpdateRevDeleted(d, op.entry)
      [] op.stmt = "update ar_deleted" -> UpdateArDeleted(d, op.entry)
      [] op.stmt = "move revision" -> MoveRevision(d, op.entry)
      [] op.stmt = "move tagged_archived_revision" ->
            MoveTaggedArchivedRevision(d, op.entry)

Op(stmt, entry) == [stmt |-> stmt, entry |-> entry]


(***************************************************************************)
(* Python dicts, which iterate in insertion order: sequences of            *)
(* <<key, value>> pairs without repeated keys.                             *)
(***************************************************************************)
DictKeys(d) == {d[i][1] : i \in 1..Len(d)}

DictGet(d, k) == LET i == CHOOSE j \in 1..Len(d) : d[j][1] = k IN d[i][2]

\* d[k] = v
DictSet(d, k, v) ==
    IF k \in DictKeys(d)
    THEN [i \in 1..Len(d) |-> IF d[i][1] = k THEN <<k, v>> ELSE d[i]]
    ELSE Append(d, <<k, v>>)

\* del d[k]
DictDel(d, k) == SelectSeq(d, LAMBDA kv : kv[1] # k)

\* d.get(k, set())
DictGetSet(d, k) == IF k \in DictKeys(d) THEN DictGet(d, k) ELSE {}

(***************************************************************************)
(* The remote wiki as the API presents it.  remote[r] is revision r at the *)
(* time of the run: st is "none", "live" or "deleted", page its page id,   *)
(* ts its timestamp, tags its change tags.  A page id p has the title      *)
(* PageTitle(p).                                                           *)
(***************************************************************************)
PageTitle(p) == IF p = 1 THEN "A" ELSE "Talk:A"

\* One revision as the API returns it with props
\* ids|timestamp|...|tags (|content).
ApiRev(remote, r) ==
    [revid |-> r, timestamp |-> remote[r].ts, parentid |-> r - 1,
     tags |-> StrSeq(remote[r].tags), content |-> r]

ApiRevs(remote, R) == [i \in 1..Cardinality(R) |-> ApiRev(remote, SortedSeq(R)[i])]

LiveRevs(remote, p, from) ==
    {r \in RevIds : /\ remote[r].st = "live" /\ remote[r].page = p
                    /\ remote[r].ts >= from}

DeletedRevs(remote, t, from) ==
    {r \in RevIds : /\ remote[r].st = "deleted"
                    /\ PageTitle(remote[r].page) = t
                    /\ remote[r].ts >= from}

\* api.list(arv_params), with arvstart = from: the pages that have live
\* revisions, each with its revisions.
ApiAllRevisions(remote, from) ==
    LET ps == {p \in PageIds : LiveRevs(remote, p, from) # {}}
    IN  [i \in 1..Cardinality(ps) |->
            LET p == SortedSeq(ps)[i]
            IN  [pageid |-> p, ns |-> TitleNs(PageTitle(p)),
                 title |-> PageTitle(p),
                 revisions |-> ApiRevs(remote, LiveRevs(remote, p, from))]]

\* api.list(adr_params): the titles that have deleted revisions.  The
\* pageid of such an entry is 0 (or the id of a page created later).
ApiAllDeletedRevisions(remote) ==
    LET ts == {t \in Titles : DeletedRevs(remote, t, 1) # {}}
    IN  [i \in 1..Cardinality(ts) |->
            LET t == StrSeq(ts)[i]
            IN  [pageid |-> 0, ns |-> TitleNs(t), title |-> t,
                 revisions |-> ApiRevs(remote, DeletedRevs(remote, t, 1))]]

\* result["query"]["pages"].values() of prop=deletedrevisions for titles,
\* drvstart = from.  deletedrevisions is <<>> when the key is absent.
ApiDeletedRevisions(remote, titles, from) ==
    [i \in 1..Cardinality(titles) |->
        LET t == StrSeq(titles)[i]
        IN  [pageid |-> 0, ns |-> TitleNs(t), title |-> t,
             deletedrevisions |-> ApiRevs(remote, DeletedRevs(remote, t, from))]]

\* result["query"]["pages"].values() of prop=revisions|deletedrevisions for
\* pageids.  A key is absent (<<>>) when the page has no such revisions.
ApiPageRevisions(remote, pageids) ==
    [i \in 1..Cardinality(pageids) |->
        LET p == SortedSeq(pageids)[i]
        IN  [pageid |-> p, ns |-> TitleNs(PageTitle(p)), title |-> PageTitle(p),
             revisions |-> ApiRevs(remote, LiveRevs(remote, p, 1)),
             deletedrevisions |->
                ApiRevs(remote, DeletedRevs(remote, PageTitle(p), 1))]]

(***************************************************************************)
(* gen_text, gen_revisions, gen_deletedrevisions.  base is the value of    *)
(* the text id generator before the page: with content, revision number i  *)
(* of the page takes next(text_id_gen) = base + i.                         *)
(***************************************************************************)
gen_text(rev, text_id) ==
    <<Op("insert text",
         [old_id |-> text_id, old_text |-> rev.content, old_flags |-> "utf-8"])>>

TagOps(stmt, rev) ==
    [j \in 1..Len(rev.tags) |->
        Op(stmt, [b_rev_id |-> rev.revid, b_tag_name |-> rev.tags[j]])]

\* A variant that yields the text of a revision after its row.
gen_revisions_TextLast(page, base, wc) ==
    Flatten([i \in 1..Len(page.revisions) |->
        LET rev == page.revisions[i]
            text_id == IF wc THEN base + i ELSE NULL
        IN  <<Op("insert revision",
                 [rev_id |-> rev.revid,
                  rev_page |-> value_or_none(page.pageid),
                  rev_timestamp |-> rev.timestamp,
                  rev_parent_id |-> rev.parentid,
                  rev_text_id |-> text_id])>>
            \o (IF wc THEN gen_text(rev, text_id) ELSE <<>>)
            \o TagOps("insert tagged_revision", rev)])

gen_revisions(page, base, wc) ==
    Flatten([i \in 1..Len(page.revisions) |->
        LET rev == page.revisions[i]
            text_id == IF wc THEN base + i ELSE NULL
        IN  (IF wc THEN gen_text(rev, text_id) ELSE <<>>)
            \o <<Op("insert revision",
                    [rev_id |-> rev.revid,
                     rev_page |-> value_or_none(page.pageid),
                     rev_timestamp |-> rev.timestamp,
                     rev_parent_id |-> rev.parentid,
                     rev_text_id |-> text_id])>>
            \o TagOps("insert tagged_revision", rev)])

gen_deletedrevisions(page, base, wc) ==
    Flatten([i \in 1..Len(page.revisions) |->
        LET rev == page.revisions[i]
            text_id == IF wc THEN base + i ELSE NULL
        IN  (IF wc THEN gen_text(rev, text_id) ELSE <<>>)
            \o <<Op("insert archive",
                    [ar_namespace |-> page.ns,
                     ar_title |-> TitleDb(page.title),
                     ar_rev_id |-> rev.revid,
                     ar_page_id |-> NULL,
                     ar_timestamp |-> rev.timestamp,
                     ar_text_id |-> text_id])>>
            \o TagOps("insert tagged_archived_revision", rev)])

\* The text ids a list of pages takes: one per revision, with content.
IdsTaken(pages, wc) ==
    IF wc THEN Len(Flatten([i \in 1..Len(pages) |-> pages[i].revisions])) ELSE 0

\* "for page in pages: yield from gen(page)" for a list of pages, the
\* generator's value being base before the first page.
RECURSIVE GenPages(_, _, _, _)
GenPages(pages, base, wc, deleted) ==
    IF pages = <<>> THEN <<>>
    ELSE (IF deleted THEN gen_deletedrevisions(Head(pages), base, wc)
          ELSE gen_revisions(Head(pages), base, wc))
         \o GenPages(Tail(pages), base + IdsTaken(<<Head(pages)>>, wc), wc,
                     deleted)

RevIdsOf(pages) ==
    UNION {{pages[i].revisions[j].revid : j \in 1..Len(pages[i].revisions)} :
              i \in 1..Len(pages)}


(***************************************************************************)
(* State.                                                                  *)
(*   db           the relations as the run's transaction sees them         *)
(*   committed    the relations as committed: what another connection      *)
(*                (self.db.engine.connect(), self.db.engine.execute) reads *)
(*   checkpoint   the last synced timestamp, NULL before the first sync    *)
(*   pc           where the run is                                         *)
(*   with_content self.with_content                                        *)
(*   since        the argument of gen_update                               *)
(*   remote, log, continues                                                *)
(*                the remote wiki, the log events from since on, and the   *)
(*                queries the API answers with a continuation token        *)
(*   text_id_gen  the value of self.text_id_gen, -1 before its first next  *)
(*   le_i         the index of the next log event                          *)
(*   ops          the operations yielded by the run so far                 *)
(*   queue        the operations yielded and not yet executed              *)
(*   api_calls    the page queries made by the run                         *)
(*   error        the exception that ended the run, "" when none           *)
(*   runs         the number of runs started                               *)
(*   applied      the committed relations after each committed run         *)
(*   initial      the committed relations before the first run             *)
(* The other variables are the locals of gen_update.                       *)
(***************************************************************************)
VARIABLES db, committed, checkpoint, pc, with_content, since,
          remote, log, continues,
          text_id_gen, new_revids, new_deleted_revids,
          deleted_pages, undeleted_pages, merged_pages, moved_pages,
          deleted_revisions, added_tags, removed_tags, imported_pages,
          le_i, ops, queue, api_calls, error, runs, applied, initial

inputs == <<with_content, remote, log, continues, initial>>
locals == <<new_revids, new_deleted_revids, deleted_pages, undeleted_pages,
            merged_pages, moved_pages, deleted_revisions, added_tags,
            removed_tags, imported_pages, le_i>>
vars == <<db, committed, checkpoint, pc, since, inputs, text_id_gen, locals,
          ops, queue, api_calls, error, runs, applied>>

\* The time the modelled run starts: the checkpoint a successful run writes.
Now == MaxOf(Timestamps)

\* A variant that starts at 0 whatever the text relation holds.
TextIdBase_Unseeded == IF text_id_gen = -1 THEN 0 ELSE text_id_gen

\* next(self.text_id_gen) for n values: the generator's value afterwards.
\* Its first next reads max(old_id) on a connection of its own.
TextIdBase ==
    IF text_id_gen = -1 THEN MaxOf(DOMAIN committed.text) ELSE text_id_gen

Yield(new) ==
    /\ ops' = ops \o new
    /\ queue' = queue \o new

Raise(e) ==
    /\ pc' = "raised"
    /\ error' = e

(***************************************************************************)
(* The consumer of the generator (Grabber.insert / Grabber.update), after  *)
(* sections 4.5 and 5 of the specification.                                *)
(***************************************************************************)
\* A run starts: a first run, a retry after a failed run, or a new run after
\* a crash between the commit and the checkpoint write.  Without a
\* checkpoint it is gen_insert, otherwise gen_update(checkpoint).
Begin ==
    /\ pc \in {"idle", "failed", "committed"}
    /\ runs < MaxRuns
    /\ runs' = runs + 1
    /\ since' = checkpoint
    /\ pc' = IF checkpoint = NULL THEN "gen_insert" ELSE "gen_update"
    /\ db' = committed
    /\ text_id_gen' = -1
    /\ new_revids' = {}
    /\ new_deleted_revids' = {}
    /\ deleted_pages' = {}
    /\ undeleted_pages' = <<>>
    /\ merged_pages' = <<>>
    /\ moved_pages' = {}
    /\ deleted_revisions' = <<>>
    /\ added_tags' = <<>>
    /\ removed_tags' = <<>>
    /\ imported_pages' = {}
    /\ le_i' = 1
    /\ ops' = <<>>
    /\ queue' = <<>>
    /\ api_calls' = <<>>
    /\ error' = ""
    /\ UNCHANGED <<committed, checkpoint, inputs, applied>>

\* conn.execute(stmt, entry) for the next yielded operation.
ExecuteNext ==
    /\ queue # <<>>
    /\ pc # "raised"
    /\ LET res == Execute(db, Head(queue))
       IN  IF res.ok
           THEN /\ db' = res.db
                /\ queue' = Tail(queue)
                /\ UNCHANGED <<pc, error>>
           ELSE /\ Raise("IntegrityError")
                /\ UNCHANGED <<db, queue>>
    /\ UNCHANGED <<committed, checkpoint, since, inputs, text_id_gen, locals,
                   ops, api_calls, runs, applied>>

\* A variant that commits what the failed run changed.
Rollback_Kept ==
    /\ pc = "raised"
    /\ pc' = "failed"
    /\ committed' = db
    /\ queue' = <<>>
    /\ UNCHANGED <<db, checkpoint, since, inputs, text_id_gen, locals,
                   ops, api_calls, error, runs, applied>>

\* An exception leaves the transaction block: rollback.
Rollback ==
    /\ pc = "raised"
    /\ pc' = "failed"
    /\ db' = committed
    /\ queue' = <<>>
    /\ UNCHANGED <<committed, checkpoint, since, inputs, text_id_gen, locals,
                   ops, api_calls, error, runs, applied>>

\* The generator is exhausted and every operation was executed: commit.
Commit ==
    /\ pc = "end"
    /\ queue = <<>>
    /\ pc' = "committed"
    /\ committed' = db
    /\ applied' = Append(applied, db)
    /\ UNCHANGED <<db, checkpoint, since, inputs, text_id_gen, locals, ops,
                   queue, api_calls, error, runs>>

\* The checkpoint is written after the commit.
WriteCheckpoint ==
    /\ pc = "committed"
    /\ pc' = "synced"
    /\ checkpoint' = Now
    /\ UNCHANGED <<db, committed, since, inputs, text_id_gen, locals, ops,
                   queue, api_calls, error, runs, applied>>


(***************************************************************************)
(* gen_insert                                                              *)
(***************************************************************************)
\* The generator's steps run when the consumer asks for the next operation:
\* after it has executed the ones yielded before.
GenStep(at) == pc = at /\ queue = <<>>

\* for page in self.api.list(self.arv_params)
InsertRevisions ==
    /\ GenStep("gen_insert")
    /\ LET pages == ApiAllRevisions(remote, 1)
       IN  /\ Yield(GenPages(pages, TextIdBase, with_content, FALSE))
           /\ text_id_gen' = IF IdsTaken(pages, with_content) = 0
                             THEN text_id_gen
                             ELSE TextIdBase + IdsTaken(pages, with_content)
    /\ pc' = "gen_insert_adr"
    /\ UNCHANGED <<db, committed, checkpoint, since, inputs, locals, api_calls,
                   error, runs, applied>>

\* for page in self.api.list(self.adr_params)
InsertDeletedRevisions ==
    /\ GenStep("gen_insert_adr")
    /\ LET pages == ApiAllDeletedRevisions(remote)
       IN  /\ Yield(GenPages(pages, TextIdBase, with_content, TRUE))
           /\ text_id_gen' = IF IdsTaken(pages, with_content) = 0
                             THEN text_id_gen
                             ELSE TextIdBase + IdsTaken(pages, with_content)
    /\ pc' = "end"
    /\ UNCHANGED <<db, committed, checkpoint, since, inputs, locals, api_calls,
                   error, runs, applied>>

(***************************************************************************)
(* gen_update                                                              *)
(***************************************************************************)
\* for page in self.api.list(arv_params): the revisions from since on
NewRevisions ==
    /\ GenStep("gen_update")
    /\ LET pages == ApiAllRevisions(remote, since)
       IN  /\ Yield(GenPages(pages, TextIdBase, with_content, FALSE))
           /\ text_id_gen' = IF IdsTaken(pages, with_content) = 0
                             THEN text_id_gen
                             ELSE TextIdBase + IdsTaken(pages, with_content)
           /\ new_revids' = new_revids \cup RevIdsOf(pages)
    /\ pc' = IF log = <<>> THEN "undelete" ELSE "log"
    /\ UNCHANGED <<db, committed, checkpoint, since, inputs, new_deleted_revids,
                   deleted_pages, undeleted_pages, merged_pages, moved_pages,
                   deleted_revisions, added_tags, removed_tags, imported_pages,
                   le_i, api_calls, error, runs, applied>>

\* One iteration of "for le in logevents.list(self.db, le_params)".
LogEvent(type, action) ==
    /\ GenStep("log")
    /\ log[le_i].type = type
    /\ log[le_i].action = action
    /\ le_i' = le_i + 1
    /\ pc' = IF le_i = Len(log) THEN "undelete" ELSE "log"
    /\ UNCHANGED <<db, committed, checkpoint, since, inputs, text_id_gen,
                   new_revids, new_deleted_revids, ops, queue, api_calls,
                   error, runs, applied>>

\* After a delete: the page ended deleted, whatever was restored before.
DeletedAfterDelete(dp, le) == dp \cup {le.title}
UndeletedAfterDelete(up, le) ==
    IF le.title \in DictKeys(up) THEN DictDel(up, le.title) ELSE up

LogDelete ==
    /\ LogEvent("delete", "delete")
    /\ deleted_pages' = DeletedAfterDelete(deleted_pages, log[le_i])
    /\ undeleted_pages' = UndeletedAfterDelete(undeleted_pages, log[le_i])
    /\ UNCHANGED <<merged_pages, moved_pages, deleted_revisions, added_tags,
                   removed_tags, imported_pages>>

\* After a restore: the page ended restored, whatever was deleted before.
UndeletedAfterRestore(up, le) == DictSet(up, le.title, le.logpage)
\* A variant in which a restore leaves the page among the deleted ones.
DeletedAfterRestore_Kept(dp, le) == dp
DeletedAfterRestore(dp, le) == dp \ {le.title}

LogRestore ==
    /\ LogEvent("delete", "restore")
    /\ undeleted_pages' = UndeletedAfterRestore(undeleted_pages, log[le_i])
    /\ deleted_pages' = DeletedAfterRestore(deleted_pages, log[le_i])
    /\ UNCHANGED <<merged_pages, moved_pages, deleted_revisions, added_tags,
                   removed_tags, imported_pages>>

\* for revid in le["params"]["ids"]: deleted_revisions[revid] = new bitmask
RECURSIVE SetBitmasks(_, _, _)
SetBitmasks(dr, ids, bitmask) ==
    IF ids = <<>> THEN dr
    ELSE SetBitmasks(DictSet(dr, Head(ids), bitmask), Tail(ids), bitmask)

\* A variant that keeps the bitmask of the first event of a revision.
LogRevisionDelete_FirstKept ==
    /\ LogEvent("delete", "revision")
    /\ deleted_revisions' =
          SetBitmasks(deleted_revisions,
                      SelectSeq(log[le_i].params.ids,
                                LAMBDA r : \A i \in 1..Len(deleted_revisions) :
                                              deleted_revisions[i][1] # r),
                      log[le_i].params.bitmask)
    /\ UNCHANGED <<deleted_pages, undeleted_pages, merged_pages, moved_pages,
                   added_tags, removed_tags, imported_pages>>

LogRevisionDelete ==
    /\ LogEvent("delete", "revision")
    /\ deleted_revisions' =
          SetBitmasks(deleted_revisions, log[le_i].params.ids,
                      log[le_i].params.bitmask)
    /\ UNCHANGED <<deleted_pages, undeleted_pages, merged_pages, moved_pages,
                   added_tags, removed_tags, imported_pages>>

LogImport ==
    /\ LogEvent("import", log[le_i].action)
    /\ imported_pages' = imported_pages \cup {log[le_i].logpage}
    /\ UNCHANGED <<deleted_pages, undeleted_pages, merged_pages, moved_pages,
                   deleted_revisions, added_tags, removed_tags>>

LogMerge ==
    /\ LogEvent("merge", log[le_i].action)
    /\ merged_pages' = DictSet(merged_pages, log[le_i].logpage, log[le_i].params)
    /\ UNCHANGED <<deleted_pages, undeleted_pages, moved_pages,
                   deleted_revisions, added_tags, removed_tags, imported_pages>>

LogMove ==
    /\ LogEvent("move", log[le_i].action)
    /\ moved_pages' = moved_pages \cup {log[le_i].logpage}
    /\ UNCHANGED <<deleted_pages, undeleted_pages, merged_pages,
                   deleted_revisions, added_tags, removed_tags, imported_pages>>

\* The tag events of one log event for revision r: tags a added, tags rm
\* removed (a and rm disjoint).  The result is the pair of dicts.
\* A variant in which an add does not look at the pending removes.
AddedAfterAdds_NoCancel(at, rt, r, a) ==
    IF a = {} THEN at ELSE DictSet(at, r, DictGetSet(at, r) \cup a)

AddedAfterAdds(at, rt, r, a) ==
    LET fresh == a \ DictGetSet(rt, r)
    IN  IF fresh = {} THEN at ELSE DictSet(at, r, DictGetSet(at, r) \cup fresh)

RemovedAfterAdds(at, rt, r, a) ==
    LET hit == a \cap DictGetSet(rt, r)
    IN  IF hit = {} THEN rt ELSE DictSet(rt, r, DictGetSet(rt, r) \ hit)

\* A variant in which a remove does not cancel a pending add.
AddedAfterRemoves_NoCancel(at, rt, r, rm) == at

AddedAfterRemoves(at, rt, r, rm) ==
    LET hit == rm \cap DictGetSet(at, r)
    IN  IF hit = {} THEN at ELSE DictSet(at, r, DictGetSet(at, r) \ hit)

RemovedAfterRemoves(at, rt, r, rm) ==
    LET fresh == rm \ DictGetSet(at, r)
    IN  IF fresh = {} THEN rt ELSE DictSet(rt, r, DictGetSet(rt, r) \cup fresh)

\* Whether the tag event is taken: it names a revision ("revid" in params,
\* here revid # NULL) that is not among the new ones.
TagEventTaken(le, nr, ndr) ==
    /\ le.params.revid # NULL
    /\ le.params.revid \notin nr
    /\ le.params.revid \notin ndr

LogTag ==
    /\ LogEvent("tag", "update")
    /\ LET le == log[le_i]
           r == le.params.revid
           at1 == AddedAfterAdds(added_tags, removed_tags, r, le.params.tagsAdded)
           rt1 == RemovedAfterAdds(added_tags, removed_tags, r,
                                   le.params.tagsAdded)
       IN  IF TagEventTaken(le, new_revids, new_deleted_revids)
           THEN /\ added_tags' =
                      AddedAfterRemoves(at1, rt1, r, le.params.tagsRemoved)
                /\ removed_tags' =
                      RemovedAfterRemoves(at1, rt1, r, le.params.tagsRemoved)
           ELSE UNCHANGED <<added_tags, removed_tags>>
    /\ UNCHANGED <<deleted_pages, undeleted_pages, merged_pages, moved_pages,
                   deleted_revisions, imported_pages>>

\* Any other log event falls through every branch.
LogOther ==
    /\ LogEvent("block", "block")
    /\ UNCHANGED <<deleted_pages, undeleted_pages, merged_pages, moved_pages,
                   deleted_revisions, added_tags, removed_tags, imported_pages>>


\* handle undelete: three operations per restored page, in dict order
\* A variant that moves the revisions before their tags.
UndeleteOps_RevisionsFirst(up) ==
    Flatten([i \in 1..Len(up) |->
        LET title == up[i][1]
            pageid == up[i][2]
        IN  <<Op("update archive.ar_page_id",
                 [b_namespace |-> TitleNs(title), b_title |-> TitleDb(title),
                  ar_page_id |-> pageid]),
              Op("move revision", [b_page_id |-> pageid]),
              Op("move tagged_archived_revision", [b_page_id |-> pageid])>>])

UndeleteOps(up) ==
    Flatten([i \in 1..Len(up) |->
        LET title == up[i][1]
            pageid == up[i][2]
            ns == TitleNs(title)
            dbtitle == TitleDb(title)
        IN  <<Op("update archive.ar_page_id",
                 [b_namespace |-> ns, b_title |-> dbtitle,
                  ar_page_id |-> pageid]),
              Op("move tagged_archived_revision", [b_page_id |-> pageid]),
              Op("move revision", [b_page_id |-> pageid])>>])

HandleUndelete ==
    /\ GenStep("undelete")
    /\ Yield(UndeleteOps(undeleted_pages))
    /\ pc' = "deleted"
    /\ UNCHANGED <<db, committed, checkpoint, since, inputs, text_id_gen,
                   locals, api_calls, error, runs, applied>>

\* page["revisions"] = page.pop("deletedrevisions"), for the pages of a
\* result that have the key
WithDeletedRevisions(pages) ==
    LET has == SelectSeq(pages, LAMBDA pg : pg.deletedrevisions # <<>>)
    IN  [i \in 1..Len(has) |->
            [pageid |-> has[i].pageid, ns |-> has[i].ns,
             title |-> has[i].title, revisions |-> has[i].deletedrevisions]]

\* "drvcontinue" in result, for the query of the deleted pages
\* A variant that does not look for the continuation token.
DrvContinued_Ignored == FALSE

DrvContinued == "drvcontinue" \in continues

\* "rvcontinue" in result or "drvcontinue" in result, for the query of the
\* imported pages
ImportContinued ==
    "rvcontinue" \in continues \/ "imp_drvcontinue" \in continues

\* The deleted revisions of the pages that ended deleted, from since on.  One
\* chunk: the titles are fewer than api.max_ids_per_query.  No page, no query.
DeletedPages ==
    /\ GenStep("deleted")
    /\ IF deleted_pages = {}
       THEN /\ pc' = "import"
            /\ UNCHANGED <<ops, queue, api_calls, error, text_id_gen,
                           new_revids>>
       ELSE /\ api_calls' = Append(api_calls,
                                   [prop |-> "deletedrevisions",
                                    titles |-> deleted_pages, pageids |-> {}])
            /\ IF DrvContinued
               THEN /\ Raise("NotImplementedError")
                    /\ UNCHANGED <<ops, queue, text_id_gen, new_revids>>
               ELSE LET pages == WithDeletedRevisions(
                                    ApiDeletedRevisions(remote, deleted_pages,
                                                        since))
                    IN  /\ Yield(GenPages(pages, TextIdBase, with_content, TRUE))
                        /\ text_id_gen' =
                              IF IdsTaken(pages, with_content) = 0
                              THEN text_id_gen
                              ELSE TextIdBase + IdsTaken(pages, with_content)
                        /\ new_revids' = new_revids \cup RevIdsOf(pages)
                        /\ pc' = "import"
                        /\ UNCHANGED error
    /\ UNCHANGED <<db, committed, checkpoint, since, inputs, new_deleted_revids,
                   deleted_pages, undeleted_pages, merged_pages, moved_pages,
                   deleted_revisions, added_tags, removed_tags, imported_pages,
                   le_i, runs, applied>>

\* One page of the imported pages' result: its revisions, then its deleted
\* revisions.
RECURSIVE GenImported(_, _, _)
GenImported(pages, base, wc) ==
    IF pages = <<>> THEN <<>>
    ELSE LET pg == Head(pages)
             n == IF wc THEN Len(pg.revisions) ELSE 0
             m == IF wc THEN Len(pg.deletedrevisions) ELSE 0
         IN  gen_revisions(pg, base, wc)
             \o gen_deletedrevisions(
                   [pageid |-> pg.pageid, ns |-> pg.ns, title |-> pg.title,
                    revisions |-> pg.deletedrevisions], base + n, wc)
             \o GenImported(Tail(pages), base + n + m, wc)

ImportedIds(pages, wc) ==
    IF wc
    THEN Len(Flatten([i \in 1..Len(pages) |->
                         pages[i].revisions \o pages[i].deletedrevisions]))
    ELSE 0

ImportedRevIds(pages) ==
    UNION {{pages[i].revisions[j].revid : j \in 1..Len(pages[i].revisions)}
           \cup {pages[i].deletedrevisions[j].revid :
                    j \in 1..Len(pages[i].deletedrevisions)} :
           i \in 1..Len(pages)}

\* sync all revisions of imported pages
ImportedPages ==
    /\ GenStep("import")
    /\ IF imported_pages = {}
       THEN /\ pc' = "merge"
            /\ UNCHANGED <<ops, queue, api_calls, error, text_id_gen,
                           new_revids>>
       ELSE /\ api_calls' = Append(api_calls,
                                   [prop |-> "revisions|deletedrevisions",
                                    titles |-> {}, pageids |-> imported_pages])
            /\ IF ImportContinued
               THEN /\ Raise("NotImplementedError")
                    /\ UNCHANGED <<ops, queue, text_id_gen, new_revids>>
               ELSE LET pages == ApiPageRevisions(remote, imported_pages)
                    IN  /\ Yield(GenImported(pages, TextIdBase, with_content))
                        /\ text_id_gen' =
                              IF ImportedIds(pages, with_content) = 0
                              THEN text_id_gen
                              ELSE TextIdBase + ImportedIds(pages, with_content)
                        /\ new_revids' = new_revids \cup ImportedRevIds(pages)
                        /\ pc' = "merge"
                        /\ UNCHANGED error
    /\ UNCHANGED <<db, committed, checkpoint, since, inputs, new_deleted_revids,
                   deleted_pages, undeleted_pages, merged_pages, moved_pages,
                   deleted_revisions, added_tags, removed_tags, imported_pages,
                   le_i, runs, applied>>

\* handle merge: the pages in dict order up to the first one that was also
\* moved, at which the loop raises
\* A variant without the safeguard: the loop never raises.
MergeStopsAt_Never(mp, mv) == Len(mp) + 1

MergeStopsAt(mp, mv) ==
    LET bad == {i \in 1..Len(mp) : mp[i][1] \in mv}
    IN  IF bad = {} THEN Len(mp) + 1 ELSE CHOOSE i \in bad : \A j \in bad : i <= j

MergeOps(mp, mv) ==
    [i \in 1..(MergeStopsAt(mp, mv) - 1) |->
        Op("merge revision",
           [b_src_page_id |-> mp[i][1],
            b_dest_ns |-> mp[i][2].dest_ns,
            b_dest_title |-> mp[i][2].dest_title,
            b_mergepoint |-> mp[i][2].mergepoint])]

HandleMerge ==
    /\ GenStep("merge")
    /\ Yield(MergeOps(merged_pages, moved_pages))
    /\ pc' = IF MergeStopsAt(merged_pages, moved_pages) <= Len(merged_pages)
             THEN "merge_moved" ELSE "bitmask"
    /\ UNCHANGED <<db, committed, checkpoint, since, inputs, text_id_gen,
                   locals, api_calls, error, runs, applied>>

\* raise NotImplementedError("Cannot merge revisions ...: target page has
\* been moved.")
MergeMoved ==
    /\ GenStep("merge_moved")
    /\ Raise("NotImplementedError")
    /\ UNCHANGED <<db, committed, checkpoint, since, inputs, text_id_gen,
                   locals, ops, queue, api_calls, runs, applied>>

\* update rev_deleted and ar_deleted: both statements for every revision
BitmaskOps(dr) ==
    Flatten([i \in 1..Len(dr) |->
        <<Op("update rev_deleted", [b_revid |-> dr[i][1], rev_deleted |-> dr[i][2]]),
          Op("update ar_deleted", [b_revid |-> dr[i][1], ar_deleted |-> dr[i][2]])>>])

UpdateDeleted ==
    /\ GenStep("bitmask")
    /\ Yield(BitmaskOps(deleted_revisions))
    /\ pc' = "addtags"
    /\ UNCHANGED <<db, committed, checkpoint, since, inputs, text_id_gen,
                   locals, api_calls, error, runs, applied>>

\* self.db.engine.execute(select exists(... rev_id == revid)): a query on a
\* connection of its own, which reads what is committed
RevisionExists(revid) == revid \in DOMAIN committed.revision

\* The statement an added tag goes to.
AddTagStmt(revid) ==
    IF RevisionExists(revid) THEN "insert tagged_revision"
    ELSE "insert tagged_archived_revision"

AddTagOps(at) ==
    Flatten([i \in 1..Len(at) |->
        LET revid == at[i][1]
            added == StrSeq(at[i][2])
        IN  [j \in 1..Len(added) |->
                Op(AddTagStmt(revid),
                   [b_rev_id |-> revid, b_tag_name |-> added[j]])]])

UpdateAddedTags ==
    /\ GenStep("addtags")
    /\ Yield(AddTagOps(added_tags))
    /\ pc' = "deltags"
    /\ UNCHANGED <<db, committed, checkpoint, since, inputs, text_id_gen,
                   locals, api_calls, error, runs, applied>>

RemoveTagOps(rt) ==
    Flatten([i \in 1..Len(rt) |->
        LET revid == rt[i][1]
            removed == StrSeq(rt[i][2])
        IN  Flatten([j \in 1..Len(removed) |->
                <<Op("delete tagged_revision",
                     [b_rev_id |-> revid, b_tag_name |-> removed[j]]),
                  Op("delete tagged_archived_revision",
                     [b_rev_id |-> revid, b_tag_name |-> removed[j]])>>])])

UpdateRemovedTags ==
    /\ GenStep("deltags")
    /\ Yield(RemoveTagOps(removed_tags))
    /\ pc' = "end"
    /\ UNCHANGED <<db, committed, checkpoint, since, inputs, text_id_gen,
                   locals, api_calls, error, runs, applied>>


(***************************************************************************)
(* The initial states: a replica, a remote wiki and the log events of the  *)
(* window that fit together.  Every revision r has a story:                *)
(*   none      it does not exist                                           *)
(*   old       live before the window, stored live                         *)
(*   fetched   live, created at the checkpoint, stored live by the run     *)
(*             before (the window starts at the checkpoint, inclusive)     *)
(*   new       live, created in the window, not stored                     *)
(*   olddel    deleted before the window, stored archived                  *)
(*   newdel    created and deleted in the window, not stored               *)
(*   restored  deleted before the window and restored in it, stored        *)
(*             archived                                                    *)
(* kept is whether the replica holds the content of its rows, known what   *)
(* an archived row carries as its page id.                                 *)
(***************************************************************************)
Kinds == {"none", "old", "fetched", "new", "olddel", "newdel", "restored"}
StoredLive == {"old", "fetched"}
StoredArchived == {"olddel", "restored"}
RemoteLive == {"old", "fetched", "new", "restored"}
RemoteDeleted == {"olddel", "newdel"}

\* The tags of revision r after the tag events of the log, from the tags it
\* had before them.
RECURSIVE NetTags(_, _, _)
NetTags(tags, lg, r) ==
    IF lg = <<>> THEN tags
    ELSE LET le == Head(lg)
         IN  IF le.type = "tag" /\ le.action = "update" /\ le.params.revid = r
             THEN NetTags((tags \cup le.params.tagsAdded)
                             \ le.params.tagsRemoved, Tail(lg), r)
             ELSE NetTags(tags, Tail(lg), r)

RemoteOf(story, lg) ==
    [r \in RevIds |->
        [st |-> IF story[r].kind \in RemoteLive THEN "live"
                ELSE IF story[r].kind \in RemoteDeleted THEN "deleted"
                ELSE "none",
         page |-> story[r].page,
         ts |-> IF story[r].kind \in {"fetched", "new", "newdel"} THEN 2 ELSE 1,
         tags |-> NetTags(story[r].tags, lg, r)]]

PageTable == [p \in PageIds |-> [ns |-> TitleNs(PageTitle(p)),
                                 title |-> TitleDb(PageTitle(p))]]

\* The id of a page that held a title before the page that holds it now, and
\* is no longer in the page relation.
FormerPageId == MaxOf(PageIds) + 1

\* What an archived row of a revision of page p carries as its page id:
\* nothing, the id of the page, or the id of a former page of the title.
ArPageId(known, p) ==
    CASE known = "unknown" -> NULL
      [] known = "current" -> p
      [] known = "former" -> FormerPageId

ReplicaOf(story, kept, known) ==
    LET live == {r \in RevIds : story[r].kind \in StoredLive}
        arch == {r \in RevIds : story[r].kind \in StoredArchived}
        txt == IF kept THEN live \cup arch ELSE {}
    IN  [revision |->
            [r \in live |->
                [rev_page |-> story[r].page,
                 rev_text_id |-> IF kept THEN r ELSE NULL,
                 rev_timestamp |-> IF story[r].kind = "fetched" THEN 2 ELSE 1,
                 rev_deleted |-> 0,
                 rev_parent_id |-> r - 1]],
         archive |->
            [r \in arch |->
                [ar_namespace |-> TitleNs(PageTitle(story[r].page)),
                 ar_title |-> TitleDb(PageTitle(story[r].page)),
                 ar_page_id |-> ArPageId(known, story[r].page),
                 ar_text_id |-> IF kept THEN r ELSE NULL,
                 ar_timestamp |-> 1,
                 ar_deleted |-> 0,
                 ar_parent_id |-> NULL]],
         text |-> [i \in txt |-> [old_text |-> i, old_flags |-> "utf-8"]],
         tagged_revision |->
            {<<r, t>> : r \in live, t \in Tags} \cap
            {tl \in RevIds \X Tags : tl[2] \in story[tl[1]].stored_tags},
         tagged_archived_revision |->
            {<<r, t>> : r \in arch, t \in Tags} \cap
            {tl \in RevIds \X Tags : tl[2] \in story[tl[1]].stored_tags},
         page |-> PageTable]

\* The log events.
LeDelete(t) ==
    [type |-> "delete", action |-> "delete", title |-> t, logpage |-> 0,
     params |-> [x |-> 0]]
LeRestore(p) ==
    [type |-> "delete", action |-> "restore", title |-> PageTitle(p),
     logpage |-> p, params |-> [x |-> 0]]
LeRevision(ids, bitmask) ==
    [type |-> "delete", action |-> "revision", title |-> "A", logpage |-> 0,
     params |-> [type |-> "revision", ids |-> ids, bitmask |-> bitmask]]
LeImport(p) ==
    [type |-> "import", action |-> "upload", title |-> PageTitle(p),
     logpage |-> p, params |-> [x |-> 0]]
LeMerge(p, dest, mergepoint) ==
    [type |-> "merge", action |-> "merge", title |-> PageTitle(p),
     logpage |-> p,
     params |-> [dest_ns |-> TitleNs(dest), dest_title |-> TitleDb(dest),
                 mergepoint |-> mergepoint]]
LeMove(p) ==
    [type |-> "move", action |-> "move", title |-> PageTitle(p),
     logpage |-> p, params |-> [x |-> 0]]
LeTag(revid, added, removed) ==
    [type |-> "tag", action |-> "update", title |-> "A", logpage |-> 0,
     params |-> [revid |-> revid, tagsAdded |-> added, tagsRemoved |-> removed]]
LeBlock ==
    [type |-> "block", action |-> "block", title |-> "A", logpage |-> 0,
     params |-> [x |-> 0]]

\* The last of the delete and restore events of a title, "" when none.
RECURSIVE LastDeleteRestore(_, _)
LastDeleteRestore(lg, t) ==
    IF lg = <<>> THEN ""
    ELSE LET le == lg[Len(lg)]
         IN  IF /\ le.type = "delete" /\ le.action \in {"delete", "restore"}
                /\ le.title = t
             THEN le.action
             ELSE LastDeleteRestore(SubSeq(lg, 1, Len(lg) - 1), t)

\* The revisions a log event names.
LeRevIds(le) ==
    IF le.type = "tag" THEN {le.params.revid} \ {NULL}
    ELSE IF le.type = "delete" /\ le.action = "revision"
         THEN Range(le.params.ids)
         ELSE {}

\* The tag events of revision r add tags it does not have and remove tags it
\* has, from the tags it had before them.
RECURSIVE TagsFit(_, _, _)
TagsFit(tags, lg, r) ==
    IF lg = <<>> THEN TRUE
    ELSE LET le == Head(lg)
         IN  IF le.type = "tag" /\ le.action = "update" /\ le.params.revid = r
             THEN /\ le.params.tagsAdded \cap tags = {}
                  /\ le.params.tagsRemoved \subseteq tags
                  /\ TagsFit((tags \cup le.params.tagsAdded)
                                \ le.params.tagsRemoved, Tail(lg), r)
             ELSE TagsFit(tags, Tail(lg), r)

\* The stories and the log fit together.
Consistent(story, lg) ==
    /\ \A r \in RevIds :
          LET last == LastDeleteRestore(lg, PageTitle(story[r].page))
          IN  /\ story[r].kind = "newdel" => last = "delete"
              /\ story[r].kind = "restored" => last = "restore"
              /\ story[r].kind \in StoredLive => last # "delete"
              /\ story[r].kind = "none" =>
                    story[r].page = 1 /\ story[r].tags = {}
              /\ IF story[r].kind \in StoredLive \cup StoredArchived
                 THEN story[r].tags = story[r].stored_tags
                 ELSE story[r].stored_tags = {}
              /\ TagsFit(story[r].tags, lg, r)
    /\ \A i \in 1..Len(lg) :
          \A r \in LeRevIds(lg[i]) : story[r].kind # "none"

SeqsUpTo(S, n) == UNION {[1..k -> S] : k \in 0..n}

Stories(kinds, tagsets) ==
    [RevIds -> [kind : kinds, page : PageIds, tags : tagsets,
                stored_tags : tagsets]]

InitWith(story, lg, wc, kept, known, cont, cp) ==
    /\ Consistent(story, lg)
    /\ remote = RemoteOf(story, lg)
    /\ log = lg
    /\ with_content = wc
    /\ continues = cont
    /\ checkpoint = cp
    /\ committed = IF cp = NULL THEN [EmptyDb EXCEPT !.page = PageTable]
                   ELSE ReplicaOf(story, kept, known)
    /\ db = committed
    /\ pc = "idle"
    /\ since = NULL
    /\ text_id_gen = -1
    /\ new_revids = {}
    /\ new_deleted_revids = {}
    /\ deleted_pages = {}
    /\ undeleted_pages = <<>>
    /\ merged_pages = <<>>
    /\ moved_pages = {}
    /\ deleted_revisions = <<>>
    /\ added_tags = <<>>
    /\ removed_tags = <<>>
    /\ imported_pages = {}
    /\ le_i = 1
    /\ ops = <<>>
    /\ queue = <<>>
    /\ api_calls = <<>>
    /\ error = ""
    /\ runs = 0
    /\ applied = <<>>
    /\ initial = committed

\* The structural events of a window.
StructEvents ==
    {LeDelete(t) : t \in Titles} \cup {LeRestore(p) : p \in PageIds}
    \cup {LeImport(1), LeMove(1), LeMove(2), LeBlock}
    \cup {LeMerge(1, "Talk:A", 1), LeMerge(1, "Talk:A", 2)}
    \cup {LeRevision(<<1>>, 1), LeRevision(<<1, 2>>, 2)}
    \cup {LeTag(1, {"t1"}, {}), LeTag(1, {}, {"t1"}), LeTag(NULL, {"t1"}, {})}

\* The tag events of revision 1.
TagEvents ==
    {LeTag(1, {t}, {}) : t \in Tags} \cup {LeTag(1, {}, {t}) : t \in Tags}
    \cup {LeTag(1, {"t1"}, {"t2"})}

\* A first synchronization: no checkpoint, an empty replica.
InitBootstrap ==
    \E story \in Stories({"none", "old", "olddel"}, {{}, {"t1"}}),
       wc \in BOOLEAN :
        InitWith(story, <<>>, wc, FALSE, "unknown", {}, NULL)

\* An incremental synchronization without content.
InitUpdate ==
    \E story \in Stories(Kinds, {{}, {"t1"}}),
       lg \in SeqsUpTo(StructEvents, MaxLog) :
        /\ story[MaxRev].tags = {}
        /\ InitWith(story, lg, FALSE, FALSE, "unknown", {}, 2)

\* An incremental synchronization of tag changes of revision 1.
InitTags ==
    \E story \in Stories({"none", "old", "olddel"}, {{}, {"t1"}}),
       lg \in SeqsUpTo(TagEvents, MaxTagLog) :
        /\ story[1].kind # "none"
        /\ \A r \in RevIds \ {1} : story[r].kind = "none"
        /\ Len(lg) > MaxLog
        /\ InitWith(story, lg, FALSE, FALSE, "unknown", {}, 2)

\* An incremental synchronization in which the API answers a page query
\* with a continuation token.
InitContinued ==
    \E story \in Stories({"none", "old", "olddel", "newdel"}, {{}}),
       lg \in SeqsUpTo({LeDelete("A"), LeImport(1), LeRestore(1),
                        LeMerge(1, "Talk:A", 1)}, MaxLog),
       cont \in {{"drvcontinue"}, {"rvcontinue"}, {"imp_drvcontinue"}} :
        InitWith(story, lg, FALSE, FALSE, "unknown", cont, 2)

\* An incremental synchronization with content, or of a replica that holds
\* content or the page ids of its archived rows.
InitContent ==
    \E story \in Stories(Kinds, {{}}),
       lg \in SeqsUpTo({LeDelete("A"), LeRestore(1), LeImport(1)}, 1),
       wc \in BOOLEAN, kept \in BOOLEAN,
       known \in {"unknown", "current", "former"} :
        /\ wc \/ kept \/ known # "unknown"
        /\ InitWith(story, lg, wc, kept, known, {}, 2)

\* An incremental synchronization of a window with a restore, an import and
\* a bitmask change of revision 1.
InitBitmask ==
    \E story \in Stories({"none", "old", "olddel", "restored"}, {{}}),
       lg \in SeqsUpTo({LeRestore(1), LeImport(1), LeRevision(<<1>>, 1)},
                       MaxBitmaskLog) :
        /\ Len(lg) > MaxLog
        /\ InitWith(story, lg, FALSE, FALSE, "unknown", {}, 2)

Init ==
    \/ InitBootstrap \/ InitUpdate \/ InitTags \/ InitContinued
    \/ InitContent \/ InitBitmask

Next ==
    \/ Begin
    \/ ExecuteNext
    \/ Rollback
    \/ Commit
    \/ WriteCheckpoint
    \/ InsertRevisions
    \/ InsertDeletedRevisions
    \/ NewRevisions
    \/ LogDelete
    \/ LogRestore
    \/ LogRevisionDelete
    \/ LogImport
    \/ LogMerge
    \/ LogMove
    \/ LogTag
    \/ LogOther
    \/ HandleUndelete
    \/ DeletedPages
    \/ ImportedPages
    \/ HandleMerge
    \/ MergeMoved
    \/ UpdateDeleted
    \/ UpdateAddedTags
    \/ UpdateRemovedTags

Spec == Init /\ [][Next]_vars


(***************************************************************************)
(* Properties.                                                             *)
(***************************************************************************)
\* The log events the loop has processed.
Processed == SubSeq(log, 1, le_i - 1)

\* The run is past the loop over the log events.
PastLog ==
    pc \in {"undelete", "deleted", "import", "merge", "merge_moved", "bitmask",
            "addtags", "deltags", "end", "committed", "synced"}

\* The run is past the queries of the deleted and imported pages.
PastQueries ==
    pc \in {"merge", "merge_moved", "bitmask", "addtags", "deltags", "end",
            "committed", "synced"}

\* The titles whose deleted revisions the run has fetched.
FetchedTitles ==
    UNION {api_calls[i].titles : i \in 1..Len(api_calls)}

\* The titles of the "update archive.ar_page_id" operations yielded.
RestoredTitles ==
    {t \in Titles :
        \E i \in 1..Len(ops) :
            /\ ops[i].stmt = "update archive.ar_page_id"
            /\ ops[i].entry.b_namespace = TitleNs(t)
            /\ ops[i].entry.b_title = TitleDb(t)}

\* C4: at every step of the loop over the log events the pages that ended
\* deleted and the pages that ended restored are disjoint, a page is among
\* the restored ones iff the last delete or restore event processed for it
\* is a restore and among the deleted ones iff it is a delete; a page whose
\* last such event of the window is a restore gets the restore operations
\* and its deleted revisions are not fetched.
C4_DeleteRestoreCollapse ==
    /\ deleted_pages \cap DictKeys(undeleted_pages) = {}
    /\ \A t \in Titles :
          /\ t \in DictKeys(undeleted_pages)
                <=> LastDeleteRestore(Processed, t) = "restore"
          /\ t \in deleted_pages
                <=> LastDeleteRestore(Processed, t) = "delete"
    /\ \A t \in Titles :
          LastDeleteRestore(log, t) = "restore" =>
              /\ t \notin FetchedTitles
              /\ PastQueries => t \in RestoredTitles

\* C4 happens: a delete and then a restore of one page were processed and the
\* run went on to its end.
C4_Witness ==
    /\ pc = "end"
    /\ \E i, j \in 1..Len(log) :
          /\ i < j
          /\ log[i].type = "delete" /\ log[i].action = "delete"
          /\ log[j].type = "delete" /\ log[j].action = "restore"
          /\ log[i].title = log[j].title
          /\ log[j].title \in DictKeys(undeleted_pages)
          /\ log[j].title \in RestoredTitles

\* The pending change of tag t of revision r after the tag events lg that
\* name r: an add cancels a pending remove and is pending otherwise, a remove
\* cancels a pending add and is pending otherwise.
RECURSIVE Pending(_, _, _)
Pending(lg, r, t) ==
    IF lg = <<>> THEN "none"
    ELSE LET le == lg[Len(lg)]
             before == Pending(SubSeq(lg, 1, Len(lg) - 1), r, t)
         IN  IF ~(le.type = "tag" /\ le.action = "update" /\ le.params.revid = r)
             THEN before
             ELSE IF t \in le.params.tagsAdded
                  THEN (IF before = "removed" THEN "none" ELSE "added")
                  ELSE IF t \in le.params.tagsRemoved
                       THEN (IF before = "added" THEN "none" ELSE "removed")
                       ELSE before

\* The tag events of the log that name revision r, as <<added, removed>>.
TagEventsOf(lg, r) ==
    LET evs == SelectSeq(lg, LAMBDA le : le.type = "tag" /\ le.action = "update"
                                          /\ le.params.revid = r)
    IN  [i \in 1..Len(evs) |-> <<evs[i].params.tagsAdded, evs[i].params.tagsRemoved>>]

\* The operations of the run on the tag links of revision r.
TagLinkOps(r) ==
    {op \in Range(ops) :
        /\ op.stmt \in {"insert tagged_revision", "insert tagged_archived_revision",
                        "delete tagged_revision", "delete tagged_archived_revision"}
        /\ op.entry.b_rev_id = r}

\* C5: for every revision that was not added by the revision feed of the run,
\* the added and removed tags are disjoint and are the pending adds and
\* removes of the tag events processed; the operations yielded for the tag
\* events are one insert per added tag and the two deletes per removed tag;
\* the events add(t1), remove(t1), add(t2) of a revision leave one operation
\* on its tag links, the insert of t2.
C5_TagNetEffect ==
    /\ \A r \in RevIds :
          /\ DictGetSet(added_tags, r) \cap DictGetSet(removed_tags, r) = {}
          /\ r \in new_revids /\ ~PastLog =>
                DictGetSet(added_tags, r) \cup DictGetSet(removed_tags, r) = {}
          /\ r \notin new_revids \/ PastLog =>
                \A t \in Tags :
                    /\ t \in DictGetSet(added_tags, r) =>
                          Pending(Processed, r, t) = "added"
                    /\ t \in DictGetSet(removed_tags, r) =>
                          Pending(Processed, r, t) = "removed"
          /\ r \notin new_revids =>
                \A t \in Tags :
                    /\ Pending(Processed, r, t) = "added" =>
                          t \in DictGetSet(added_tags, r)
                    /\ Pending(Processed, r, t) = "removed" =>
                          t \in DictGetSet(removed_tags, r)
    /\ pc \in {"end", "committed", "synced"} /\ since # NULL =>
          \A r \in RevIds \ new_revids :
              /\ \A op \in TagLinkOps(r) :
                    IF op.stmt \in {"insert tagged_revision",
                                    "insert tagged_archived_revision"}
                    THEN Pending(log, r, op.entry.b_tag_name) = "added"
                    ELSE Pending(log, r, op.entry.b_tag_name) = "removed"
              /\ \A t \in Tags :
                    /\ Pending(log, r, t) = "added" =>
                          Cardinality({op \in TagLinkOps(r) :
                                          op.entry.b_tag_name = t}) = 1
                    /\ Pending(log, r, t) = "removed" =>
                          {op.stmt : op \in {o \in TagLinkOps(r) :
                                                o.entry.b_tag_name = t}}
                          = {"delete tagged_revision",
                             "delete tagged_archived_revision"}
              /\ TagEventsOf(log, r) = <<<<{"t1"}, {}>>, <<{}, {"t1"}>>,
                                         <<{"t2"}, {}>>>> =>
                    \E stmt \in {"insert tagged_revision",
                                 "insert tagged_archived_revision"} :
                        TagLinkOps(r) =
                           {Op(stmt, [b_rev_id |-> r, b_tag_name |-> "t2"])}

\* C5 happens: the events add(t1), remove(t1), add(t2) of a stored revision
\* were processed and the run yielded its last operation.
C5_Witness ==
    /\ pc = "end"
    /\ \E r \in RevIds \ new_revids :
          /\ TagEventsOf(log, r) = <<<<{"t1"}, {}>>, <<{}, {"t1"}>>,
                                     <<{"t2"}, {}>>>>
          /\ DictGetSet(added_tags, r) = {"t2"}
          /\ Cardinality(TagLinkOps(r)) = 1

\* The revisions whose row an operation of the run inserts.
InsertedRevIds ==
    {op.entry.rev_id : op \in {o \in Range(ops) : o.stmt = "insert revision"}}
    \cup {op.entry.ar_rev_id : op \in {o \in Range(ops) : o.stmt = "insert archive"}}

\* The revisions the replica stored before the run.
StoredRevIds == DOMAIN committed.revision \cup DOMAIN committed.archive

\* The operations the run derives from the tag events of the window.
TagEventOps == AddTagOps(added_tags) \o RemoveTagOps(removed_tags)

\* C6: when an incremental run has yielded its last operation, no operation
\* derived from the tag events of the window names a revision that was not
\* stored before the run and whose row the run inserts.
C6_NewRevisionsExcluded ==
    pc = "end" /\ since # NULL =>
        \A r \in InsertedRevIds \ StoredRevIds :
            \A i \in 1..Len(TagEventOps) : TagEventOps[i].entry.b_rev_id # r

\* A merge event and a move event of the window name the same page.
MergeMoveConflict ==
    \E i, j \in 1..Len(log) :
        /\ log[i].type = "merge"
        /\ log[j].type = "move"
        /\ log[i].logpage = log[j].logpage

\* The pages of such a pair.
ConflictPages ==
    {p \in PageIds :
        \E i, j \in 1..Len(log) :
            /\ log[i].type = "merge" /\ log[i].logpage = p
            /\ log[j].type = "move" /\ log[j].logpage = p}

\* C7: when a merge and a move of the window name the same page, a run does
\* not get past the merges and ends with an error; no merge of that page is
\* yielded; what is committed stays what it was before the run, and after the
\* rollback the transaction sees just that; the checkpoint stays.
C7_MergeMoveAborts ==
    MergeMoveConflict /\ since # NULL =>
        /\ pc \notin {"bitmask", "addtags", "deltags", "end", "committed", "synced"}
        /\ \A i \in 1..Len(ops) :
              ops[i].stmt = "merge revision" =>
                  ops[i].entry.b_src_page_id \notin ConflictPages
        /\ committed = initial
        /\ checkpoint = since
        /\ applied = <<>>
        /\ pc = "failed" =>
              /\ error \in {"NotImplementedError", "IntegrityError"}
              /\ db = initial

\* C7 happens: the run found the merged page among the moved ones, raised and
\* was rolled back, having changed rows of the transaction before.
C7_Witness ==
    /\ MergeMoveConflict
    /\ pc = "failed"
    /\ error = "NotImplementedError"
    /\ le_i > Len(log)
    /\ api_calls = <<>>
    /\ ops # <<>>

\* The query was answered with a continuation token.
Continued(call) ==
    IF call.prop = "deletedrevisions" THEN "drvcontinue" \in continues
    ELSE "rvcontinue" \in continues \/ "imp_drvcontinue" \in continues

\* C8: the step that makes a query of the deleted or imported pages which
\* the API answers with a continuation token yields no operation and raises
\* NotImplementedError; a run that made such a query is raising or failed,
\* and commits nothing.
C8_Step ==
    /\ Len(api_calls') > Len(api_calls) /\ Continued(api_calls'[Len(api_calls')]) =>
          /\ pc' = "raised"
          /\ error' = "NotImplementedError"
          /\ ops' = ops
          /\ queue' = queue
    /\ (\E i \in 1..Len(api_calls') : Continued(api_calls'[i])) =>
          /\ pc' \in {"raised", "failed"}
          /\ error' = "NotImplementedError"
          /\ committed' = committed
          /\ checkpoint' = checkpoint

C8_ContinuationFatal == [][C8_Step]_vars

\* C8 happens: a query was answered with a continuation token and the run
\* failed.
C8_Witness ==
    /\ pc = "failed"
    /\ error = "NotImplementedError"
    /\ \E i \in 1..Len(api_calls) :
          /\ api_calls[i].prop = "deletedrevisions"
          /\ Continued(api_calls[i])

\* The same for the query of the imported pages.
C8_WitnessImport ==
    /\ pc = "failed"
    /\ error = "NotImplementedError"
    /\ \E i \in 1..Len(api_calls) :
          /\ api_calls[i].prop = "revisions|deletedrevisions"
          /\ Continued(api_calls[i])

\* The step executes the statement stmt.
Executes(stmt) ==
    /\ queue # <<>>
    /\ pc # "raised"
    /\ Head(queue).stmt = stmt
    /\ <<db, queue, pc>>' # <<db, queue, pc>>

\* The number of relations among revision and archive that hold revision r.
RowsOf(d, r) ==
    (IF r \in DOMAIN d.revision THEN 1 ELSE 0)
    + (IF r \in DOMAIN d.archive THEN 1 ELSE 0)

\* C9: the move of the archived rows of a restored page is one step: the
\* step either fails and changes no row, or leaves every archived row of the
\* page in revision only, with its values, and every other row where it was;
\* a revision that was in exactly one of the two relations is in exactly one
\* after it, and what other connections read does not change.
C9_Step ==
    Executes("move revision") =>
        LET page == Head(queue).entry.b_page_id
            moved == {r \in DOMAIN db.archive : db.archive[r].ar_page_id = page}
        IN  /\ committed' = committed
            /\ \/ /\ pc' = "raised"
                  /\ db' = db
               \/ /\ pc' = pc
                  /\ DOMAIN db'.archive = DOMAIN db.archive \ moved
                  /\ DOMAIN db'.revision = DOMAIN db.revision \cup moved
                  /\ \A r \in moved :
                        /\ db'.revision[r].rev_page = page
                        /\ db'.revision[r].rev_timestamp = db.archive[r].ar_timestamp
                        /\ db'.revision[r].rev_text_id = db.archive[r].ar_text_id
                  /\ \A r \in DOMAIN db.revision \ moved :
                        db'.revision[r] = db.revision[r]
                  /\ \A r \in DOMAIN db.archive \ moved :
                        db'.archive[r] = db.archive[r]
            /\ \A r \in RevIds : RowsOf(db, r) = 1 => RowsOf(db', r) = 1

C9_MoveAtomic == [][C9_Step]_vars

\* C9 happens: the move of a restored page was executed and a revision that
\* is committed as archived is in revision only.
C9_Witness ==
    /\ \E i \in 1..(Len(ops) - Len(queue)) : ops[i].stmt = "move revision"
    /\ \E r \in DOMAIN committed.archive :
          /\ r \in DOMAIN db.revision
          /\ r \notin DOMAIN db.archive
          /\ committed.archive[r].ar_timestamp = db.revision[r].rev_timestamp

\* The tag links of the relations d are where the revisions are: no link is
\* in both relations, no link of a revision in revision is in
\* tagged_archived_revision, no link of a revision in archive is in
\* tagged_revision.
TagLinksPlaced(d) ==
    /\ d.tagged_revision \cap d.tagged_archived_revision = {}
    /\ \A tl \in d.tagged_archived_revision : tl[1] \notin DOMAIN d.revision
    /\ \A tl \in d.tagged_revision : tl[1] \notin DOMAIN d.archive

\* C10: the tag links are where the revisions are, in what the transaction
\* of the run sees after each of its operations and in what is committed.
C10_TagLinkPlacement == TagLinksPlaced(db) /\ TagLinksPlaced(committed)

\* The relations of the replica the grabber writes.
Relations(d) ==
    [revision |-> d.revision, archive |-> d.archive, text |-> d.text,
     tagged_revision |-> d.tagged_revision,
     tagged_archived_revision |-> d.tagged_archived_revision]

\* C1: when the operations of a run were applied and committed, and the run
\* is made and applied again for the same window (the checkpoint was not
\* written in between), the relations are what they were after the first.
C1_Idempotent ==
    Len(applied) = 2 => Relations(applied[2]) = Relations(applied[1])

\* The revisions the queries of the run for live and for deleted revisions
\* return: all of them for a first synchronization, those from since on and
\* those of the deleted pages from since on for an incremental one.
FeedRevIds ==
    IF since = NULL
    THEN RevIdsOf(ApiAllRevisions(remote, 1))
         \cup RevIdsOf(ApiAllDeletedRevisions(remote))
    ELSE RevIdsOf(ApiAllRevisions(remote, since))
         \cup RevIdsOf(WithDeletedRevisions(
                          ApiDeletedRevisions(remote, deleted_pages, since)))

\* C2: after a run that succeeded, every revision its queries for live and
\* deleted revisions returned has one row in revision and archive together;
\* no revision ever has a committed row in both.
C2_ExactlyOneRow ==
    /\ pc \in {"committed", "synced"} =>
          \A r \in FeedRevIds : RowsOf(committed, r) = 1
    /\ \A r \in RevIds : RowsOf(committed, r) <= 1

\* What was committed before the run: by the last committed run, or what the
\* replica held at first.
LastCommitted == IF applied = <<>> THEN initial ELSE applied[Len(applied)]

\* C3: the checkpoint changes only in the step after the commit of a run
\* whose operations were all executed without an error; a run that fails
\* leaves the checkpoint and what was committed before it, and the
\* transaction's changes are gone; the run after a failed one gets the same
\* since.
C3_Step ==
    /\ checkpoint' # checkpoint =>
          /\ pc = "committed"
          /\ error = ""
          /\ queue = <<>>
          /\ committed = db
          /\ checkpoint' = Now
    /\ pc' \in {"raised", "failed"} =>
          /\ checkpoint' = checkpoint
          /\ committed' = committed
          /\ committed' = LastCommitted
          /\ checkpoint' = since'
    /\ pc' = "failed" => db' = committed'
    /\ pc = "failed" /\ pc' # "failed" => since' = since /\ db' = committed

C3_CheckpointAfterSuccess == [][C3_Step]_vars

\* C3 happens: a statement of a run failed after others had been executed
\* and the run was rolled back; the checkpoint is the one the run started
\* from and the relations are those committed before it.
C3_Witness ==
    /\ pc = "failed"
    /\ error = "IntegrityError"
    /\ Len(ops) > 1
    /\ since = checkpoint
    /\ Len(applied) = 1
    /\ db = applied[1]
    /\ committed = applied[1]

\* C11: the execution of "insert revision" or "insert archive" for a
\* revision that is stored in that relation does not clear a field of the
\* stored row, and in a run without content it leaves the reference to the
\* text of the row as it is.
C11_Step ==
    /\ Executes("insert revision") =>
          LET r == Head(queue).entry.rev_id
          IN  r \in DOMAIN db.revision =>
                  /\ r \in DOMAIN db'.revision
                  /\ db.revision[r].rev_text_id # NULL =>
                        db'.revision[r].rev_text_id # NULL
                  /\ ~with_content =>
                        db'.revision[r].rev_text_id = db.revision[r].rev_text_id
    /\ Executes("insert archive") =>
          LET r == Head(queue).entry.ar_rev_id
          IN  r \in DOMAIN db.archive =>
                  /\ r \in DOMAIN db'.archive
                  /\ db.archive[r].ar_text_id # NULL =>
                        db'.archive[r].ar_text_id # NULL
                  /\ ~with_content =>
                        db'.archive[r].ar_text_id = db.archive[r].ar_text_id

C11_UpsertNeverReverts == [][C11_Step]_vars

\* The text ids of the operations a run yielded, in the order of the yields.
TextIdsOf(os) ==
    LET ts == SelectSeq(os, LAMBDA op : op.stmt = "insert text")
    IN  [i \in 1..Len(ts) |-> ts[i].entry.old_id]

\* C12: the text ids a run allocates are strictly increasing, hence none is
\* allocated twice; the first is one more than the greatest id of the text
\* relation as committed before the run (1 when it is empty); the execution
\* of "insert text" adds a row and never meets a row that is there.
C12_Step ==
    /\ pc' \notin {"committed", "synced"} =>
          LET ids == TextIdsOf(ops')
          IN  /\ \A i, j \in 1..Len(ids) : i < j => ids[i] < ids[j]
              /\ \A i \in 1..Len(ids) : ids[i] > MaxOf(DOMAIN committed'.text)
              /\ ids # <<>> => ids[1] = MaxOf(DOMAIN committed'.text) + 1
              /\ ids # <<>> /\ DOMAIN committed'.text = {} => ids[1] = 1
    /\ Executes("insert text") =>
          LET id == Head(queue).entry.old_id
          IN  /\ id \notin DOMAIN db.text
              /\ DOMAIN db'.text = DOMAIN db.text \cup {id}
              /\ \A i \in DOMAIN db.text : db'.text[i] = db.text[i]

C12_TextIdsIncrease == [][C12_Step]_vars

\* C12 happens: a run with content on a replica that holds text rows has
\* yielded two text rows and executed them.
C12_Witness ==
    /\ pc = "end"
    /\ queue = <<>>
    /\ with_content
    /\ DOMAIN committed.text # {}
    /\ Len(TextIdsOf(ops)) >= 2
    /\ \A i \in 1..Len(TextIdsOf(ops)) : TextIdsOf(ops)[i] \in DOMAIN db.text

\* The window is a delete and then a restore of page p and nothing else: the
\* live revisions of the remote wiki are the rows of revision and its deleted
\* revisions the rows of archive.
DeleteRestoreOnly(p) ==
    /\ since # NULL
    /\ log = <<LeDelete(PageTitle(p)), LeRestore(p)>>
    /\ \A r \in RevIds :
          /\ remote[r].st = "live" <=> r \in DOMAIN initial.revision
          /\ remote[r].st = "deleted" <=> r \in DOMAIN initial.archive

\* The rows of revision of page p.
LiveRowsOf(d, p) ==
    [r \in {x \in DOMAIN d.revision : d.revision[x].rev_page = p} |->
        d.revision[r]]

\* The archived rows of the namespace and title of page p.
ArchivedOfTitle(d, p) ==
    {r \in DOMAIN d.archive :
        /\ d.archive[r].ar_namespace = TitleNs(PageTitle(p))
        /\ d.archive[r].ar_title = TitleDb(PageTitle(p))}

C14_Step ==
    Executes("update archive.ar_page_id") =>
        LET e == Head(queue).entry
        IN  /\ DOMAIN db'.archive = DOMAIN db.archive
            /\ \A r \in DOMAIN db.archive :
                  IF /\ db.archive[r].ar_namespace = e.b_namespace
                     /\ db.archive[r].ar_title = e.b_title
                     /\ db.archive[r].ar_page_id = NULL
                  THEN db'.archive[r] =
                          [db.archive[r] EXCEPT !.ar_page_id = e.ar_page_id]
                  ELSE db'.archive[r] = db.archive[r]

C14_ScopedUpdate == [][C14_Step]_vars

\* The number of operations of the run that were executed.
Executed == Len(ops) - Len(queue)

\* A run is under way: what is committed is what the replica held before it.
Running == pc \notin {"idle", "failed", "committed", "synced"}

\* C15: the operations of a restored page are yielded as the update of the
\* page id, the move of the tag links and the move of the revisions, for
\* every page that ended restored; when the last of the three was executed,
\* every archived row the replica held for the namespace and title is in
\* revision with the page id of the restore and not in archive, and the tag
\* links of these revisions are in tagged_revision and not in
\* tagged_archived_revision.
C15_RestoreOrder ==
    Running =>
        /\ \A i \in 1..Len(ops) :
              ops[i].stmt = "update archive.ar_page_id" =>
                  /\ i + 2 <= Len(ops)
                  /\ ops[i + 1] = Op("move tagged_archived_revision",
                                     [b_page_id |-> ops[i].entry.ar_page_id])
                  /\ ops[i + 2] = Op("move revision",
                                     [b_page_id |-> ops[i].entry.ar_page_id])
        /\ \A i \in 1..Len(ops) :
              ops[i].stmt \in {"move tagged_archived_revision", "move revision"} =>
                  \E j \in {i - 1, i - 2} \cap (1..Len(ops)) :
                      /\ ops[j].stmt = "update archive.ar_page_id"
                      /\ ops[j].entry.ar_page_id = ops[i].entry.b_page_id
        /\ PastQueries =>
              \A k \in 1..Len(undeleted_pages) :
                  \E i \in 1..Len(ops) :
                      ops[i] = Op("update archive.ar_page_id",
                                  [b_namespace |-> TitleNs(undeleted_pages[k][1]),
                                   b_title |-> TitleDb(undeleted_pages[k][1]),
                                   ar_page_id |-> undeleted_pages[k][2]])
        /\ Executed >= 3 /\ ops[Executed].stmt = "move revision" =>
              LET p == ops[Executed].entry.b_page_id
                  e == ops[Executed - 2].entry
                  was == {r \in DOMAIN committed.archive :
                             /\ committed.archive[r].ar_namespace = e.b_namespace
                             /\ committed.archive[r].ar_title = e.b_title}
              IN  /\ \A r \in was :
                        /\ r \in DOMAIN db.revision
                        /\ db.revision[r].rev_page = p
                        /\ r \notin DOMAIN db.archive
                        /\ \A t \in Tags :
                              <<r, t>> \in committed.tagged_archived_revision =>
                                  /\ <<r, t>> \in db.tagged_revision
                                  /\ <<r, t>> \notin db.tagged_archived_revision
                  /\ \A r \in DOMAIN db.archive :
                        ~(/\ db.archive[r].ar_namespace = e.b_namespace
                          /\ db.archive[r].ar_title = e.b_title)

\* C15 happens: the three operations of a restored page were executed for a
\* page with an archived row that has a tag link.
C15_Witness ==
    /\ Running
    /\ Executed >= 3
    /\ ops[Executed].stmt = "move revision"
    /\ \E r \in DOMAIN committed.archive, t \in Tags :
          /\ <<r, t>> \in committed.tagged_archived_revision
          /\ r \in DOMAIN db.revision
          /\ db.revision[r].rev_page = ops[Executed].entry.b_page_id
          /\ <<r, t>> \in db.tagged_revision

\* The operations os executed in order on the relations d, up to the first
\* that fails.
RECURSIVE ApplyAll(_, _)
ApplyAll(d, os) ==
    IF os = <<>> THEN Ok(d)
    ELSE LET res == Execute(d, Head(os))
         IN  IF res.ok THEN ApplyAll(res.db, Tail(os)) ELSE res

\* The operations of the restore of page p.
RestoreOps(p) == UndeleteOps(<<<<PageTitle(p), p>>>>)

\* C16: on the relations of every state, when the operations of the restore
\* of a page were executed without an error, executing them once more raises
\* no error and changes none of the relations.
C16_MoveReentrant ==
    \A p \in PageIds :
        LET once == ApplyAll(db, RestoreOps(p))
        IN  once.ok => ApplyAll(once.db, RestoreOps(p)) = Ok(once.db)

\* C16 happens: a first run moved an archived row and its tag link to the
\* live relations and was committed; the second run over the same window
\* has executed the operations of the restore again and the relations are
\* what the first run left.
C16_Witness ==
    /\ runs = 2
    /\ Len(applied) = 1
    /\ Running
    /\ Executed >= 3
    /\ ops[Executed].stmt = "move revision"
    /\ db = committed
    /\ \E r \in DOMAIN initial.archive, t \in Tags :
          /\ <<r, t>> \in initial.tagged_archived_revision
          /\ r \in DOMAIN db.revision
          /\ <<r, t>> \in db.tagged_revision

\* C17: the insert of a revision that the target relation already holds
\* changes at most the text id of that row: its page, timestamp, parent and
\* bitmask, every other row of the relation, the rows of the other relation
\* and the tag links are what they were, and the relation holds the same
\* revision ids.
C17_Step ==
    /\ Executes("insert revision") =>
          LET r == Head(queue).entry.rev_id
          IN  r \in DOMAIN db.revision =>
                  /\ pc' # "raised"
                  /\ DOMAIN db'.revision = DOMAIN db.revision
                  /\ db'.revision[r] =
                        [db.revision[r] EXCEPT
                            !.rev_text_id = db'.revision[r].rev_text_id]
                  /\ \A o \in DOMAIN db.revision \ {r} :
                        db'.revision[o] = db.revision[o]
                  /\ db'.archive = db.archive
                  /\ db'.tagged_revision = db.tagged_revision
                  /\ db'.tagged_archived_revision = db.tagged_archived_revision
    /\ Executes("insert archive") =>
          LET r == Head(queue).entry.ar_rev_id
          IN  r \in DOMAIN db.archive =>
                  /\ pc' # "raised"
                  /\ DOMAIN db'.archive = DOMAIN db.archive
                  /\ db'.archive[r] =
                        [db.archive[r] EXCEPT
                            !.ar_text_id = db'.archive[r].ar_text_id]
                  /\ \A o \in DOMAIN db.archive \ {r} :
                        db'.archive[o] = db.archive[o]
                  /\ db'.revision = db.revision
                  /\ db'.tagged_revision = db.tagged_revision
                  /\ db'.tagged_archived_revision = db.tagged_archived_revision

C17_UpsertChangesTextIdOnly == [][C17_Step]_vars

\* C17 happens: a run has executed the insert of a revision that the live
\* relation held with another text id, and the row has the text id of the
\* entry and the other values it had.
C17_Witness ==
    /\ Running
    /\ Executed >= 1
    /\ ops[Executed].stmt = "insert revision"
    /\ LET r == ops[Executed].entry.rev_id
       IN  /\ r \in DOMAIN committed.revision
           /\ r \in DOMAIN db.revision
           /\ db.revision[r].rev_text_id = ops[Executed].entry.rev_text_id
           /\ db.revision[r].rev_text_id # committed.revision[r].rev_text_id
           /\ db.revision[r] =
                 [committed.revision[r] EXCEPT
                     !.rev_text_id = db.revision[r].rev_text_id]

\* C18: when the insert of a tag link of a tag event is executed (the
\* operations of the added tags are those executed while the generator is
\* past them and before the removed tags), it goes to tagged_revision if the
\* transaction holds the revision in revision at that moment and to
\* tagged_archived_revision otherwise; the removal of a tag link from
\* tagged_revision is followed by its removal from
\* tagged_archived_revision.
C18_Step ==
    /\ pc = "deltags" /\ Executes("insert tagged_revision") =>
          Head(queue).entry.b_rev_id \in DOMAIN db.revision
    /\ pc = "deltags" /\ Executes("insert tagged_archived_revision") =>
          Head(queue).entry.b_rev_id \notin DOMAIN db.revision
    /\ pc = "end" /\ Executes("delete tagged_revision") =>
          /\ Len(queue) > 1
          /\ queue[2] = Op("delete tagged_archived_revision",
                           Head(queue).entry)

C18_AddTagTargets == [][C18_Step]_vars

\* C19: the two updates of the bitmask of a revision are yielded together,
\* update rev_deleted then update ar_deleted, for every revision of the
\* bitmask events; the execution of either sets the bitmask of the row of
\* that revision in its relation, if there is one, leaves every other value
\* and every other row as it was, and neither adds nor removes a row of any
\* relation; at most one of the two changes a row.
C19_Step ==
    /\ Executes("update rev_deleted") =>
          LET r == Head(queue).entry.b_revid
              b == Head(queue).entry.rev_deleted
          IN  /\ pc' # "raised"
              /\ Len(queue) > 1
              /\ queue[2] = Op("update ar_deleted",
                               [b_revid |-> r, ar_deleted |-> b])
              /\ DOMAIN db'.revision = DOMAIN db.revision
              /\ \A o \in DOMAIN db.revision :
                    db'.revision[o] =
                       IF o = r THEN [db.revision[o] EXCEPT !.rev_deleted = b]
                       ELSE db.revision[o]
              /\ [db' EXCEPT !.revision = db.revision] = db
              /\ r \in DOMAIN db.revision => r \notin DOMAIN db.archive
    /\ Executes("update ar_deleted") =>
          LET r == Head(queue).entry.b_revid
              b == Head(queue).entry.ar_deleted
          IN  /\ pc' # "raised"
              /\ DOMAIN db'.archive = DOMAIN db.archive
              /\ \A o \in DOMAIN db.archive :
                    db'.archive[o] =
                       IF o = r THEN [db.archive[o] EXCEPT !.ar_deleted = b]
                       ELSE db.archive[o]
              /\ [db' EXCEPT !.archive = db.archive] = db
              /\ r \in DOMAIN db.archive => r \notin DOMAIN db.revision

C19_BitmaskUpdate == [][C19_Step]_vars

\* C20: the execution of a merge gives the page that has the namespace and
\* title of the destination at that moment to the rows of revision whose page
\* is the source and whose timestamp is at most the merge point, and to no
\* other row: later revisions of the source, revisions of other pages, the
\* rows of archive and the tag links are what they were; when the
\* destination is in the page relation no merged row has a NULL page.
C20_Step ==
    Executes("merge revision") =>
        LET e == Head(queue).entry
            dest == {p \in DOMAIN db.page :
                        /\ db.page[p].ns = e.b_dest_ns
                        /\ db.page[p].title = e.b_dest_title}
            merged == {i \in DOMAIN db.revision :
                          /\ db.revision[i].rev_page = e.b_src_page_id
                          /\ db.revision[i].rev_timestamp <= e.b_mergepoint}
        IN  /\ pc' # "raised"
            /\ DOMAIN db'.revision = DOMAIN db.revision
            /\ \A i \in merged :
                  /\ dest # {} => db'.revision[i].rev_page \in dest
                  /\ dest = {} => db'.revision[i].rev_page = NULL
                  /\ db'.revision[i] =
                        [db.revision[i] EXCEPT
                            !.rev_page = db'.revision[i].rev_page]
            /\ \A i \in DOMAIN db.revision \ merged :
                  db'.revision[i] = db.revision[i]
            /\ [db' EXCEPT !.revision = db.revision] = db

C20_MergeReassigns == [][C20_Step]_vars

\* C20 happens: a merge was executed on a replica that held an earlier and a
\* later revision of the source page; the earlier one has the page of the
\* destination, the later one the source page.
C20_Witness ==
    /\ Running
    /\ Executed >= 1
    /\ ops[Executed].stmt = "merge revision"
    /\ LET e == ops[Executed].entry
       IN  \E i, j \in DOMAIN committed.revision :
              /\ committed.revision[i].rev_page = e.b_src_page_id
              /\ committed.revision[j].rev_page = e.b_src_page_id
              /\ committed.revision[i].rev_timestamp <= e.b_mergepoint
              /\ committed.revision[j].rev_timestamp > e.b_mergepoint
              /\ i \in DOMAIN db.revision /\ j \in DOMAIN db.revision
              /\ db.revision[i].rev_page # e.b_src_page_id
              /\ db.revision[i].rev_page # NULL
              /\ db.page[db.revision[i].rev_page].ns = e.b_dest_ns
              /\ db.page[db.revision[i].rev_page].title = e.b_dest_title
              /\ db.revision[j].rev_page = e.b_src_page_id

\* The revision and the text id of the row an operation inserts.
RowRevId(op) ==
    IF op.stmt = "insert revision" THEN op.entry.rev_id ELSE op.entry.ar_rev_id

RowTextId(op) ==
    IF op.stmt = "insert revision" THEN op.entry.rev_text_id
    ELSE op.entry.ar_text_id

\* The statement of the tag links of the rows a statement inserts.
TagStmtOf(stmt) ==
    IF stmt = "insert revision" THEN "insert tagged_revision"
    ELSE "insert tagged_archived_revision"

\* The operations new, yielded after the operations old, are in the order of
\* a revision with content: the text with an id no text of the run and no
\* row of the text relation has, then the row that refers to it, then the
\* tag links of the row.
RevisionOrder(old, new, texts) ==
    \A k \in 1..Len(new) :
        /\ new[k].stmt \in {"insert revision", "insert archive"} =>
              /\ k > 1
              /\ new[k - 1].stmt = "insert text"
              /\ RowTextId(new[k]) # NULL
              /\ new[k - 1].entry.old_id = RowTextId(new[k])
        /\ new[k].stmt = "insert text" =>
              /\ k < Len(new)
              /\ new[k + 1].stmt \in {"insert revision", "insert archive"}
              /\ new[k].entry.old_id \notin texts
              /\ \A j \in 1..Len(old) :
                    old[j].stmt = "insert text" =>
                        old[j].entry.old_id # new[k].entry.old_id
              /\ \A j \in 1..(k - 1) :
                    new[j].stmt = "insert text" =>
                        new[j].entry.old_id # new[k].entry.old_id
        /\ new[k].stmt \in {"insert tagged_revision",
                            "insert tagged_archived_revision"} =>
              \E j \in 1..(k - 1) :
                  /\ new[j].stmt \in {"insert revision", "insert archive"}
                  /\ TagStmtOf(new[j].stmt) = new[k].stmt
                  /\ RowRevId(new[j]) = new[k].entry.b_rev_id
                  /\ \A m \in (j + 1)..(k - 1) :
                        /\ new[m].stmt = new[k].stmt
                        /\ new[m].entry.b_rev_id = new[k].entry.b_rev_id

\* C21: with content, the operations every step of the generator yields for
\* the revisions of the queries (the steps before the operations of the tag
\* events) are, for each revision, the text with a fresh id of its own, the
\* row that refers to it and the tag links of the row, in this order; and
\* after every step each row of revision and archive that has a text id
\* refers to a row of text.
C21_Step ==
    with_content =>
        /\ Len(ops') > Len(ops) /\ pc # "addtags" =>
              RevisionOrder(ops, SubSeq(ops', Len(ops) + 1, Len(ops')),
                            DOMAIN db.text)
        /\ \A r \in DOMAIN db'.revision :
              db'.revision[r].rev_text_id # NULL =>
                  db'.revision[r].rev_text_id \in DOMAIN db'.text
        /\ \A r \in DOMAIN db'.archive :
              db'.archive[r].ar_text_id # NULL =>
                  db'.archive[r].ar_text_id \in DOMAIN db'.text

C21_RevisionOrder == [][C21_Step]_vars

\* C21 happens: a first synchronization with content of a page with two
\* revisions, one of them tagged, has executed its operations; the
\* operations of the tagged revision are its text, its row and its tag link,
\* and the two rows refer to two rows of text.
C21_Witness ==
    /\ with_content
    /\ since = NULL
    /\ pc = "end"
    /\ queue = <<>>
    /\ \E k \in 1..(Len(ops) - 2) :
          /\ ops[k].stmt = "insert text"
          /\ ops[k + 1].stmt = "insert revision"
          /\ ops[k + 1].entry.rev_text_id = ops[k].entry.old_id
          /\ ops[k + 2].stmt = "insert tagged_revision"
          /\ ops[k + 2].entry.b_rev_id = ops[k + 1].entry.rev_id
    /\ \E r, s \in DOMAIN db.revision :
          /\ r # s
          /\ db.revision[r].rev_text_id \in DOMAIN db.text
          /\ db.revision[s].rev_text_id \in DOMAIN db.text
          /\ db.revision[r].rev_text_id # db.revision[s].rev_text_id

\* C22: every insert into archive a run yields carries a NULL page id; the
\* execution of the move of the revisions of a restored page takes out of
\* archive only rows whose page id is the page id of the restore, which is
\* not NULL: the rows of archive with a NULL page id stay where they are, and
\* every row the move adds to revision has the page id of the restore.
C22_Step ==
    /\ \A k \in 1..Len(ops') :
          ops'[k].stmt = "insert archive" => ops'[k].entry.ar_page_id = NULL
    /\ Executes("move revision") =>
          LET page == Head(queue).entry.b_page_id
          IN  /\ page # NULL
              /\ \A r \in DOMAIN db.archive \ DOMAIN db'.archive :
                    db.archive[r].ar_page_id = page
              /\ \A r \in DOMAIN db.archive :
                    db.archive[r].ar_page_id = NULL =>
                        /\ r \in DOMAIN db'.archive
                        /\ db'.archive[r] = db.archive[r]
              /\ \A r \in DOMAIN db'.revision \ DOMAIN db.revision :
                    /\ r \in DOMAIN db.archive
                    /\ db'.revision[r].rev_page = page

C22_PageIdBeforeMove == [][C22_Step]_vars

\* C22 happens: the replica held two archived rows with a NULL page id, of
\* two titles; the restore of one title was executed: its row is in revision
\* with the page id of the restore, the row of the other title is in archive
\* with its NULL page id.
C22_Witness ==
    /\ Running
    /\ Executed >= 3
    /\ ops[Executed].stmt = "move revision"
    /\ \E r, s \in DOMAIN committed.archive :
          /\ committed.archive[r].ar_page_id = NULL
          /\ committed.archive[s].ar_page_id = NULL
          /\ r \in DOMAIN db.revision
          /\ r \notin DOMAIN db.archive
          /\ db.revision[r].rev_page = ops[Executed].entry.b_page_id
          /\ db.revision[r].rev_page # NULL
          /\ s \in DOMAIN db.archive
          /\ db.archive[s].ar_page_id = NULL

\* The bitmask events of the log, in its order.
BitmaskEvents(lg) ==
    SelectSeq(lg, LAMBDA le : le.type = "delete" /\ le.action = "revision")

\* The revisions the bitmask events of the log name.
BitmaskRevIds(lg) ==
    {r \in RevIds :
        \E i \in 1..Len(BitmaskEvents(lg)) :
            r \in Range(BitmaskEvents(lg)[i].params.ids)}

\* The bitmask of revision r after the bitmask events of the log were applied
\* in its order to the bitmask b.
RECURSIVE ReplayBitmask(_, _, _)
ReplayBitmask(lg, r, b) ==
    IF lg = <<>> THEN b
    ELSE ReplayBitmask(Tail(lg), r,
            IF /\ Head(lg).type = "delete"
               /\ Head(lg).action = "revision"
               /\ r \in Range(Head(lg).params.ids)
            THEN Head(lg).params.bitmask ELSE b)

\* The run has yielded the operations of the bitmask events.
PastBitmask == pc \in {"addtags", "deltags", "end", "committed", "synced"}

\* C23: when an incremental run is past the bitmask events, it has yielded
\* for every revision they name, whatever the other events of the window,
\* the two updates once, with the bitmask of the last event that names the
\* revision, and no bitmask update for another revision; when all operations
\* were executed, every row of that revision in revision and in archive has
\* the bitmask the replay of the bitmask events in the order of the log gives.
C23_BitmaskKept ==
    PastBitmask /\ since # NULL =>
        /\ \A r \in BitmaskRevIds(log) :
              /\ Cardinality({k \in 1..Len(ops) :
                    ops[k] = Op("update rev_deleted",
                                [b_revid |-> r,
                                 rev_deleted |-> ReplayBitmask(log, r, 0)])})
                    = 1
              /\ Cardinality({k \in 1..Len(ops) :
                    ops[k] = Op("update ar_deleted",
                                [b_revid |-> r,
                                 ar_deleted |-> ReplayBitmask(log, r, 0)])})
                    = 1
              /\ pc # "addtags" \/ queue = <<>> =>
                    /\ r \in DOMAIN db.revision =>
                          db.revision[r].rev_deleted =
                             ReplayBitmask(log, r, db.revision[r].rev_deleted)
                    /\ r \in DOMAIN db.archive =>
                          db.archive[r].ar_deleted =
                             ReplayBitmask(log, r, db.archive[r].ar_deleted)
        /\ \A k \in 1..Len(ops) :
              /\ ops[k].stmt = "update rev_deleted" =>
                    /\ ops[k].entry.b_revid \in BitmaskRevIds(log)
                    /\ ops[k].entry.rev_deleted =
                          ReplayBitmask(log, ops[k].entry.b_revid, 0)
              /\ ops[k].stmt = "update ar_deleted" =>
                    /\ ops[k].entry.b_revid \in BitmaskRevIds(log)
                    /\ ops[k].entry.ar_deleted =
                          ReplayBitmask(log, ops[k].entry.b_revid, 0)

\* C23 happens: two bitmask events of the window name revision 1 with two
\* bitmasks, the replica held it with neither, and the run that has executed
\* all its operations left it with the second.
C23_Witness ==
    /\ pc = "end"
    /\ queue = <<>>
    /\ since # NULL
    /\ Len(BitmaskEvents(log)) = 2
    /\ 1 \in Range(BitmaskEvents(log)[1].params.ids)
    /\ 1 \in Range(BitmaskEvents(log)[2].params.ids)
    /\ BitmaskEvents(log)[1].params.bitmask
          # BitmaskEvents(log)[2].params.bitmask
    /\ 1 \in DOMAIN committed.revision
    /\ committed.revision[1].rev_deleted = 0
    /\ 1 \in DOMAIN db.revision
    /\ db.revision[1].rev_deleted = BitmaskEvents(log)[2].params.bitmask

\* The tags of revision r on the replica d, in either relation of tag links.
TagsOn(d, r) ==
    {t \in Tags : <<r, t>> \in d.tagged_revision \cup d.tagged_archived_revision}

\* The revisions the replica held before the window that were made before
\* it: their timestamp is before since.
MadeBefore(d) ==
    {r \in DOMAIN d.revision : d.revision[r].rev_timestamp < since}
    \cup {r \in DOMAIN d.archive : d.archive[r].ar_timestamp < since}

\* C24: when an incremental run has processed the log, for every revision
\* made before the window that the replica held, and whose tag events add
\* only tags it lacks and remove only tags it has, the tags it had before the
\* window with the collapsed added tags put in and the collapsed removed tags
\* taken out are the tags the events give when applied one by one in the
\* order of the log.
C24_CollapseAgrees ==
    PastLog /\ since # NULL =>
        \A r \in MadeBefore(initial) :
            TagsFit(TagsOn(initial, r), log, r) =>
                (TagsOn(initial, r) \cup DictGetSet(added_tags, r))
                      \ DictGetSet(removed_tags, r)
                   = NetTags(TagsOn(initial, r), log, r)

\* C24 happens: three tag events of the window name revision 1, made before
\* the window, and fit its tags; they change its tags, and the collapsed
\* sets, not both empty, give the tags of the replay.
C24_Witness ==
    /\ PastLog
    /\ since # NULL
    /\ 1 \in MadeBefore(initial)
    /\ Len(TagEventsOf(log, 1)) = 3
    /\ TagsFit(TagsOn(initial, 1), log, 1)
    /\ NetTags(TagsOn(initial, 1), log, 1) # TagsOn(initial, 1)
    /\ DictGetSet(added_tags, 1) \cup DictGetSet(removed_tags, 1) # {}
    /\ (TagsOn(initial, 1) \cup DictGetSet(added_tags, 1))
             \ DictGetSet(removed_tags, 1)
          = NetTags(TagsOn(initial, 1), log, 1)

=============================================================================
